---- MODULE Spec2Model ----
(***************************************************************************)
(* Lead reconciliation service (src/src/server.ts) and its CSV batch      *)
(* driver (src/src/import_csv.ts).                                         *)
(*                                                                         *)
(* Text that the code inspects character by character (tags, product      *)
(* labels, e-mails, money, phone numbers) is a sequence of one-character  *)
(* strings; identifiers that the code only compares are TLA+ strings.     *)
(* Numbers are exact decimals counted in thousandths (1000 = 1.00).       *)
(***************************************************************************)
EXTENDS Integers, Sequences, FiniteSets, TLC

(***************************************************************************)
(* Bounds of the model                                                     *)
(***************************************************************************)
\* direct HTTP clients that may post one request each
NDirect == 2
\* most leads in one POST /import body
MaxLeads == 2
\* most leads in all the requests of one behaviour
MaxWork == 2
\* remote calls that may fail in one behaviour
MaxFails == 1
\* tasks returned per page by the remote list endpoint
PageSize == 2
\* rows the driver handles at a time (env CONCURRENCY)
CONCURRENCY == 2
\* most tags in a list given to unionTags
MaxTags == 2
\* most amounts applied to one aggregate
MaxAmounts == 3
\* most lines of a description given to the rewrite
MaxDescLines == 3
\* rows of the longest sheet the driver reads
MaxRows == 3
\* most options of the enumerated product field, most labels of one lead
MaxOptions == 3
MaxLabels == 2

(***************************************************************************)
(* Characters and strings                                                  *)
(***************************************************************************)
None == "<none>"

UpperAZ == <<"A","B","C","D","E","F","G","H","I","J","K","L","M",
             "N","O","P","Q","R","S","T","U","V","W","X","Y","Z",
             "Á","Ã","Ç","É","Ê","Í","Ó","Õ","Ú">>
LowerAZ == <<"a","b","c","d","e","f","g","h","i","j","k","l","m",
             "n","o","p","q","r","s","t","u","v","w","x","y","z",
             "á","ã","ç","é","ê","í","ó","õ","ú">>
Accented == <<"á","ã","ç","é","ê","í","ó","õ","ú">>
Unaccented == <<"a","a","c","e","e","i","o","o","u">>
Digits == <<"0","1","2","3","4","5","6","7","8","9">>
WhiteSpace == {" ", "\t"}

IndexIn(c, tbl) == CHOOSE i \in 1..Len(tbl) : tbl[i] = c
InTable(c, tbl) == \E i \in 1..Len(tbl) : tbl[i] = c

\* String.prototype.toLowerCase, one character
LowerChar(c) == IF InTable(c, UpperAZ) THEN LowerAZ[IndexIn(c, UpperAZ)] ELSE c
ToLowerCase(s) == [i \in 1..Len(s) |-> LowerChar(s[i])]

\* .normalize('NFD').replace(/\p{Diacritic}/gu, ''), one character
StripChar(c) == IF InTable(c, Accented) THEN Unaccented[IndexIn(c, Accented)] ELSE c
StripDiacritics(s) == [i \in 1..Len(s) |-> StripChar(s[i])]

IsDigit(c) == InTable(c, Digits)
DigitVal(c) == IndexIn(c, Digits) - 1

RECURSIVE TrimLeft(_)
TrimLeft(s) == IF s # <<>> /\ Head(s) \in WhiteSpace THEN TrimLeft(Tail(s)) ELSE s
RECURSIVE TrimRight(_)
TrimRight(s) ==
  IF s # <<>> /\ s[Len(s)] \in WhiteSpace THEN TrimRight(SubSeq(s, 1, Len(s) - 1)) ELSE s
\* String.prototype.trim
Trim(s) == TrimRight(TrimLeft(s))

\* .replace(/\s+/g, ' ')
RECURSIVE CollapseSpaces(_)
CollapseSpaces(s) ==
  IF s = <<>> THEN <<>>
  ELSE IF Head(s) \in WhiteSpace
       THEN <<" ">> \o CollapseSpaces(TrimLeft(s))
       ELSE <<Head(s)>> \o CollapseSpaces(Tail(s))

\* all occurrences of the characters of cs removed
RECURSIVE RemoveChars(_, _)
RemoveChars(s, cs) ==
  IF s = <<>> THEN <<>>
  ELSE IF Head(s) \in cs THEN RemoveChars(Tail(s), cs)
       ELSE <<Head(s)>> \o RemoveChars(Tail(s), cs)

ReplaceChar(s, from, to) == [i \in 1..Len(s) |-> IF s[i] = from THEN to ELSE s[i]]

HasChar(s, c) == \E i \in 1..Len(s) : s[i] = c

StartsWith(s, p) == Len(s) >= Len(p) /\ SubSeq(s, 1, Len(p)) = p

\* String.prototype.includes
Includes(s, p) ==
  \E i \in 0..(Len(s) - Len(p)) : SubSeq(s, i + 1, i + Len(p)) = p

\* elements of a sequence, first occurrence kept (Array.from(new Set(...)))
RECURSIVE Dedup(_)
Dedup(q) ==
  IF q = <<>> THEN <<>>
  ELSE LET r == Dedup(SubSeq(q, 1, Len(q) - 1))
           x == q[Len(q)]
       IN IF \E i \in 1..Len(r) : r[i] = x THEN r ELSE Append(r, x)

Range(q) == {q[i] : i \in 1..Len(q)}

RECURSIVE SeqFilterNonEmpty(_)
SeqFilterNonEmpty(q) ==
  IF q = <<>> THEN <<>>
  ELSE IF Head(q) = <<>> THEN SeqFilterNonEmpty(Tail(q))
       ELSE <<Head(q)>> \o SeqFilterNonEmpty(Tail(q))

(***************************************************************************)
(* server.ts: pure helpers                                                 *)
(***************************************************************************)
\* normalize(str)
normalize(str) == Trim(CollapseSpaces(StripDiacritics(ToLowerCase(str))))

\* input.split(/[,;|]/)
RECURSIVE SplitList(_, _)
SplitList(s, cur) ==
  IF s = <<>> THEN <<cur>>
  ELSE IF Head(s) \in {",", ";", "|"}
       THEN <<cur>> \o SplitList(Tail(s), <<>>)
       ELSE SplitList(Tail(s), Append(cur, Head(s)))

\* toArray(input) for a string input
toArray(input) ==
  IF input = <<>> THEN <<>>
  ELSE SeqFilterNonEmpty([i \in 1..Len(SplitList(input, <<>>)) |->
                             Trim(SplitList(input, <<>>)[i])])

(***************************************************************************)
(* Money: parseCurrencyToNumber, toUSDMoneyString, toClickUpCurrency       *)
(***************************************************************************)
\* a JavaScript value that is a string, a number or absent
NoValue == [kind |-> "none"]
StrV(s) == [kind |-> "str", s |-> s]
NumV(n) == [kind |-> "num", n |-> n]
\* JSON null
NullV == [kind |-> "null"]

\* number | null as returned by parseCurrencyToNumber
Null == [ok |-> FALSE, n |-> 0]
Num(n) == [ok |-> TRUE, n |-> n]

RECURSIVE DigitsValue(_)
DigitsValue(s) ==
  IF s = <<>> THEN 0 ELSE 10 * DigitsValue(SubSeq(s, 1, Len(s) - 1)) + DigitVal(s[Len(s)])

AllDigits(s) == \A i \in 1..Len(s) : IsDigit(s[i])

\* the fraction digits of a decimal literal, in thousandths (digits past
\* the third are below the resolution of the model and are dropped)
FracThousandths(f) ==
  DigitsValue(SubSeq(f \o <<"0","0","0">>, 1, 3))

\* Number(s) for the literals the alphabet can spell: optional sign,
\* digits with at most one decimal point; "" is 0; anything else is NaN
NumberOf(s) ==
  LET neg == s # <<>> /\ Head(s) = "-"
      body == IF s # <<>> /\ Head(s) \in {"-", "+"} THEN Tail(s) ELSE s
      dots == {i \in 1..Len(body) : body[i] = "."}
      dot == IF dots = {} THEN Len(body) + 1 ELSE CHOOSE i \in dots : TRUE
      ip == SubSeq(body, 1, dot - 1)
      fp == SubSeq(body, dot + 1, Len(body))
      mag == 1000 * DigitsValue(ip) + FracThousandths(fp)
  IN IF s = <<>> THEN Num(0)
     ELSE IF Cardinality(dots) > 1 \/ ~AllDigits(ip) \/ ~AllDigits(fp)
             \/ Len(ip) + Len(fp) = 0
          THEN Null
          ELSE Num(IF neg THEN -mag ELSE mag)

\* s.replace(/BRL|R\$|\s/gi, '')
RECURSIVE StripCurrencyMarks(_)
StripCurrencyMarks(s) ==
  IF s = <<>> THEN <<>>
  ELSE IF Len(s) >= 3 /\ ToLowerCase(SubSeq(s, 1, 3)) = <<"b","r","l">>
       THEN StripCurrencyMarks(SubSeq(s, 4, Len(s)))
  ELSE IF Len(s) >= 2 /\ ToLowerCase(SubSeq(s, 1, 2)) = <<"r","$">>
       THEN StripCurrencyMarks(SubSeq(s, 3, Len(s)))
  ELSE IF Head(s) \in WhiteSpace
       THEN StripCurrencyMarks(Tail(s))
  ELSE <<Head(s)>> \o StripCurrencyMarks(Tail(s))

\* parseCurrencyToNumber(input)
parseCurrencyToNumber(input) ==
  IF input.kind = "none" THEN Null
  ELSE IF input.kind = "num" THEN Num(input.n)
  ELSE LET s0 == Trim(input.s)
           s1 == StripCurrencyMarks(s0)
           s2 == IF HasChar(s1, ",") /\ HasChar(s1, ".")
                 THEN ReplaceChar(RemoveChars(s1, {"."}), ",", ".")
                 ELSE IF HasChar(s1, ",") THEN ReplaceChar(s1, ",", ".")
                 ELSE s1
       IN IF s0 = <<>> THEN Null ELSE NumberOf(s2)

\* a value in a JavaScript condition: null and 0 are falsy
Truthy(pn) == pn.ok /\ pn.n # 0

RECURSIVE DecStr(_)
DecStr(n) ==
  IF n < 10 THEN <<Digits[n + 1]>> ELSE DecStr(n \div 10) \o <<Digits[(n % 10) + 1]>>

Abs(n) == IF n < 0 THEN -n ELSE n

\* Number.prototype.toFixed(2): nearest hundredth, ties away from zero
ToFixed2(v) ==
  LET c == (Abs(v) + 5) \div 10
  IN (IF v < 0 THEN <<"-">> ELSE <<>>) \o DecStr(c \div 100) \o <<".">>
       \o <<Digits[((c \div 10) % 10) + 1], Digits[(c % 10) + 1]>>

\* toUSDMoneyString(value)
toUSDMoneyString(value) == ToFixed2(value)

\* toClickUpCurrency(value)
toClickUpCurrency(value) ==
  IF value % 1000 = 0
  THEN (IF value < 0 THEN <<"-">> ELSE <<>>) \o DecStr(Abs(value) \div 1000)
  ELSE ToFixed2(value)

(***************************************************************************)
(* Tags                                                                    *)
(***************************************************************************)
\* a merge that takes the additions as they are written
unionTagsRaw(existing, additions) ==
  Dedup([i \in 1..Len(existing) |-> normalize(existing[i])] \o additions)

\* unionTags(existing, additions)
unionTags(existing, additions) ==
  Dedup([i \in 1..Len(existing) |-> normalize(existing[i])]
        \o [i \in 1..Len(additions) |-> normalize(additions[i])])

(***************************************************************************)
(* Phone numbers and regions                                               *)
(***************************************************************************)
\* raw.replace(/\D+/g, '')
RECURSIVE OnlyDigits(_)
OnlyDigits(s) ==
  IF s = <<>> THEN <<>>
  ELSE IF IsDigit(Head(s)) THEN <<Head(s)>> \o OnlyDigits(Tail(s))
       ELSE OnlyDigits(Tail(s))

\* formatPhoneE164(raw); <<>> stands for null
formatPhoneE164(raw) ==
  LET digits == OnlyDigits(raw)
  IN IF raw = <<>> \/ digits = <<>> THEN <<>>
     ELSE IF StartsWith(Trim(raw), <<"+">>) THEN <<"+">> \o digits
     ELSE IF StartsWith(digits, <<"5","5">>) THEN <<"+">> \o digits
     ELSE <<"+","5","5">> \o digits

\* normalizePhone(raw) of the batch driver; <<>> stands for null
normalizePhone(raw) ==
  LET digits == OnlyDigits(raw)
  IN IF raw = <<>> \/ digits = <<>> THEN <<>>
     ELSE IF StartsWith(Trim(raw), <<"+">>) THEN <<"+">> \o digits
     ELSE IF StartsWith(digits, <<"5","5">>) THEN <<"+">> \o digits
     ELSE <<"+","5","5">> \o digits

\* the area-code table, as pairs <<area code, region>>
DDD_TO_UF ==
  <<<<<<"6","8">>, <<"A","C">>>>, <<<<"8","2">>, <<"A","L">>>>, <<<<"9","6">>, <<"A","P">>>>,
    <<<<"9","2">>, <<"A","M">>>>, <<<<"9","7">>, <<"A","M">>>>, <<<<"7","1">>, <<"B","A">>>>,
    <<<<"7","3">>, <<"B","A">>>>, <<<<"7","4">>, <<"B","A">>>>, <<<<"7","5">>, <<"B","A">>>>,
    <<<<"7","7">>, <<"B","A">>>>, <<<<"8","5">>, <<"C","E">>>>, <<<<"8","8">>, <<"C","E">>>>,
    <<<<"6","1">>, <<"D","F">>>>, <<<<"2","7">>, <<"E","S">>>>, <<<<"2","8">>, <<"E","S">>>>,
    <<<<"6","2">>, <<"G","O">>>>, <<<<"6","4">>, <<"G","O">>>>, <<<<"9","8">>, <<"M","A">>>>,
    <<<<"9","9">>, <<"M","A">>>>, <<<<"6","5">>, <<"M","T">>>>, <<<<"6","6">>, <<"M","T">>>>,
    <<<<"6","7">>, <<"M","S">>>>, <<<<"3","1">>, <<"M","G">>>>, <<<<"3","2">>, <<"M","G">>>>,
    <<<<"3","3">>, <<"M","G">>>>, <<<<"3","4">>, <<"M","G">>>>, <<<<"3","5">>, <<"M","G">>>>,
    <<<<"3","7">>, <<"M","G">>>>, <<<<"3","8">>, <<"M","G">>>>, <<<<"9","1">>, <<"P","A">>>>,
    <<<<"9","3">>, <<"P","A">>>>, <<<<"9","4">>, <<"P","A">>>>, <<<<"8","3">>, <<"P","B">>>>,
    <<<<"4","1">>, <<"P","R">>>>, <<<<"4","2">>, <<"P","R">>>>, <<<<"4","3">>, <<"P","R">>>>,
    <<<<"4","4">>, <<"P","R">>>>, <<<<"4","5">>, <<"P","R">>>>, <<<<"4","6">>, <<"P","R">>>>,
    <<<<"8","1">>, <<"P","E">>>>, <<<<"8","7">>, <<"P","E">>>>, <<<<"8","6">>, <<"P","I">>>>,
    <<<<"8","9">>, <<"P","I">>>>, <<<<"2","1">>, <<"R","J">>>>, <<<<"2","2">>, <<"R","J">>>>,
    <<<<"2","4">>, <<"R","J">>>>, <<<<"8","4">>, <<"R","N">>>>, <<<<"5","1">>, <<"R","S">>>>,
    <<<<"5","3">>, <<"R","S">>>>, <<<<"5","4">>, <<"R","S">>>>, <<<<"5","5">>, <<"R","S">>>>,
    <<<<"6","9">>, <<"R","O">>>>, <<<<"9","5">>, <<"R","R">>>>, <<<<"4","7">>, <<"S","C">>>>,
    <<<<"4","8">>, <<"S","C">>>>, <<<<"4","9">>, <<"S","C">>>>, <<<<"1","1">>, <<"S","P">>>>,
    <<<<"1","2">>, <<"S","P">>>>, <<<<"1","3">>, <<"S","P">>>>, <<<<"1","4">>, <<"S","P">>>>,
    <<<<"1","5">>, <<"S","P">>>>, <<<<"1","6">>, <<"S","P">>>>, <<<<"1","7">>, <<"S","P">>>>,
    <<<<"1","8">>, <<"S","P">>>>, <<<<"1","9">>, <<"S","P">>>>, <<<<"7","9">>, <<"S","E">>>>,
    <<<<"6","3">>, <<"T","O">>>>>>

\* DDD_TO_UF[ddd]; <<>> stands for undefined
RegionOfDDD(ddd) ==
  IF \E k \in 1..Len(DDD_TO_UF) : DDD_TO_UF[k][1] = ddd
  THEN DDD_TO_UF[CHOOSE k \in 1..Len(DDD_TO_UF) : DDD_TO_UF[k][1] = ddd][2]
  ELSE <<>>

\* extractDDDFromE164(phoneE164); <<>> stands for null
extractDDDFromE164(phoneE164) ==
  LET rest == SubSeq(phoneE164, 4, Len(phoneE164))
      ddd == SubSeq(rest, 1, IF Len(rest) < 2 THEN Len(rest) ELSE 2)
  IN IF phoneE164 = <<>> \/ ~StartsWith(phoneE164, <<"+","5","5">>) THEN <<>>
     ELSE IF Len(ddd) = 2 /\ AllDigits(ddd) THEN ddd ELSE <<>>

(***************************************************************************)
(* The remote list: field definitions and configured field ids            *)
(***************************************************************************)
\* a JavaScript array value held by a custom field
ListV(q) == [kind |-> "list", ids |-> q]

\* fallback ids of the well-known custom fields
CPF_CUSTOM_FIELD_ID == "82ed3673-9b3e-4c7f-8c21-b070b7ecd3e1"
EMAIL_CUSTOM_FIELD_ID == "c34aaeb2-0233-42d3-8242-cd9a603b5b0b"
VALOR_VENDA_CUSTOM_FIELD_ID == "34343626-c252-4f75-acd3-d28391885d4b"

NoField == [id |-> None, name |-> <<>>, options |-> <<>>]

\* what GET /list/{id}/field answers for the list of the model
ListFields ==
  << [id |-> "fld-email", name |-> <<"E","m","a","i","l">>, options |-> <<>>],
     [id |-> "fld-whats", name |-> <<"W","h","a","t","s","A","p","p">>, options |-> <<>>],
     [id |-> "fld-cpf", name |-> <<"C","P","F">>, options |-> <<>>],
     [id |-> "fld-prod", name |-> <<"P","r","o","d","u","t","o","s">>,
      options |-> << [id |-> <<"o","1">>, label |-> <<"C","u","r","s","o">>],
                     [id |-> <<"o","2">>, label |-> <<"M","e","n","t","o","r","i","a">>] >>] >>

\* the ids under which a task can hold custom-field values
FieldIds ==
  {ListFields[k].id : k \in 1..Len(ListFields)}
    \cup {CPF_CUSTOM_FIELD_ID, EMAIL_CUSTOM_FIELD_ID, VALOR_VENDA_CUSTOM_FIELD_ID}

\* order in which a task lists its custom fields
FieldOrder ==
  <<"fld-email", EMAIL_CUSTOM_FIELD_ID, "fld-whats", "fld-cpf", CPF_CUSTOM_FIELD_ID,
    "fld-prod", VALOR_VENDA_CUSTOM_FIELD_ID>>

\* byName.get(normalize(name)) over the fetched definitions: the Map keeps
\* the last definition set under a key
ByName(fields, name) ==
  LET hits == {k \in 1..Len(fields) : normalize(fields[k].name) = normalize(name)}
  IN IF hits = {} THEN NoField
     ELSE fields[CHOOSE k \in hits : \A j \in hits : j <= k]

emailFieldOf(fields) == ByName(fields, <<"E","m","a","i","l">>)
whatsappFieldOf(fields) ==
  IF ByName(fields, <<"W","h","a","t","s","A","p","p">>) # NoField
  THEN ByName(fields, <<"W","h","a","t","s","A","p","p">>)
  ELSE ByName(fields, <<"W","h","a","t","s","a","p","p">>)
cpfFieldOf(fields) == ByName(fields, <<"C","P","F">>)
produtosFieldOf(fields) ==
  IF ByName(fields, <<"P","r","o","d","u","t","o">>) # NoField
  THEN ByName(fields, <<"P","r","o","d","u","t","o">>)
  ELSE ByName(fields, <<"P","r","o","d","u","t","o","s">>)

\* emailField?.id || EMAIL_CUSTOM_FIELD_ID
emailFieldIdOf(fields) ==
  IF emailFieldOf(fields) # NoField THEN emailFieldOf(fields).id ELSE EMAIL_CUSTOM_FIELD_ID
\* a tax id field that is always the one named CPF on the list
cpfFieldIdOfList(fields) == "fld-cpf"

\* cpfField?.id || CPF_CUSTOM_FIELD_ID
cpfFieldIdOf(fields) ==
  IF cpfFieldOf(fields) # NoField THEN cpfFieldOf(fields).id ELSE CPF_CUSTOM_FIELD_ID

(***************************************************************************)
(* Per-lead derivations of POST /import                                    *)
(***************************************************************************)
\* the lock key of an e-mail: (email || '').trim().toLowerCase()
KeyOf(email) == ToLowerCase(Trim(email))

\* phoneE164 = formatPhoneE164(lead.whatsapp)
phoneE164Of(lead) ==
  IF lead.whatsapp.kind = "str" THEN formatPhoneE164(lead.whatsapp.s) ELSE <<>>

\* derivedTags: normalized products, then the region of the phone's area
\* code, else the lead's own region
derivedTagsOf(lead) ==
  LET productList == toArray(lead.produtos)
      uf == RegionOfDDD(extractDDDFromE164(phoneE164Of(lead)))
      region == IF uf # <<>> THEN <<normalize(uf)>>
                ELSE IF lead.estado # <<>> THEN <<normalize(lead.estado)>>
                ELSE <<>>
  IN Dedup([k \in 1..Len(productList) |-> normalize(productList[k])] \o region)

\* a resolution whose third tier takes the last option that matches
ResolveOneLastFuzzy(raw, options) ==
  LET trimmed == Trim(raw)
      norm == normalize(trimmed)
      byLabel == {k \in 1..Len(options) :
                    options[k].label # <<>> /\ normalize(options[k].label) = norm}
      fuzzy == {k \in 1..Len(options) :
                  \/ Includes(normalize(options[k].label), norm)
                  \/ Includes(norm, normalize(options[k].label))}
  IN IF trimmed = <<>> THEN <<>>
     ELSE IF \E k \in 1..Len(options) : options[k].id = trimmed THEN <<trimmed>>
     ELSE IF byLabel # {}
          THEN <<options[CHOOSE k \in byLabel : \A j \in byLabel : j <= k].id>>
     ELSE IF fuzzy # {}
          THEN <<options[CHOOSE k \in fuzzy : \A j \in fuzzy : j <= k].id>>
     ELSE <<>>

\* one requested product against the options: exact id, then normalized
\* label (the Map keeps the last option set under a label), then the
\* first option whose label contains or is contained in the request
ResolveOne(raw, options) ==
  LET trimmed == Trim(raw)
      norm == normalize(trimmed)
      byLabel == {k \in 1..Len(options) :
                    options[k].label # <<>> /\ normalize(options[k].label) = norm}
      fuzzy == {k \in 1..Len(options) :
                  \/ Includes(normalize(options[k].label), norm)
                  \/ Includes(norm, normalize(options[k].label))}
  IN IF trimmed = <<>> THEN <<>>
     ELSE IF \E k \in 1..Len(options) : options[k].id = trimmed THEN <<trimmed>>
     ELSE IF byLabel # {}
          THEN <<options[CHOOSE k \in byLabel : \A j \in byLabel : j <= k].id>>
     ELSE IF fuzzy # {}
          THEN <<options[CHOOSE k \in fuzzy : \A j \in fuzzy : k <= j].id>>
     ELSE <<>>

RECURSIVE ResolveAll(_, _)
ResolveAll(productList, options) ==
  IF productList = <<>> THEN <<>>
  ELSE ResolveOne(Head(productList), options) \o ResolveAll(Tail(productList), options)

\* produtoOptionIds of a lead under the fetched definitions
produtoOptionIdsOf(lead, fields) ==
  IF toArray(lead.produtos) # <<>> /\ produtosFieldOf(fields) # NoField
  THEN Dedup(ResolveAll(toArray(lead.produtos), produtosFieldOf(fields).options))
  ELSE <<>>

(***************************************************************************)
(* Purchase history lines                                                  *)
(***************************************************************************)
\* the date a run takes from the clock when a lead carries none
Today == <<"0","2","/","1","1","/","2","0","2","6">>

\* DD/MM/YYYY as accepted by parseDateInput (calendar dates; the optional
\* time of day does not reach the formatted date)
IsBRDate(s) ==
  /\ Len(s) = 10
  /\ s[3] = "/" /\ s[6] = "/"
  /\ \A k \in {1, 2, 4, 5, 7, 8, 9, 10} : IsDigit(s[k])
  /\ s[1] \in {"0","1","2","3"} /\ s[4] \in {"0","1"}

\* formatDateBR(dateInput)
formatDateBR(dateInput) == IF IsBRDate(dateInput) THEN dateInput ELSE Today

\* buildPurchaseLine(dateIso, amount, product)
buildPurchaseLine(dateIso, amount, product) ==
  formatDateBR(dateIso) \o <<" ","|"," ">> \o toUSDMoneyString(amount)
    \o <<" ","|"," ">> \o product

ComprasHeader == <<"C","o","m","p","r","a","s",":">>

\* a description is the sequence of its lines; <<>> is the empty text
\* /^\s*Compras:/m.test(desc)
HasComprasSection(desc) ==
  \E k \in 1..Len(desc) : StartsWith(TrimLeft(desc[k]), ComprasHeader)
\* a test that never finds the line
DescIncludesNever(desc, line) == FALSE

\* desc.includes(line), for a line without line breaks
DescIncludes(desc, line) == \E k \in 1..Len(desc) : Includes(desc[k], line)
\* desc.trim().length > 0
DescNonBlank(desc) == \E k \in 1..Len(desc) : Trim(desc[k]) # <<>>

\* the description written by the update path
appendPurchase(existingDesc, line) ==
  IF HasComprasSection(existingDesc)
  THEN IF DescIncludes(existingDesc, line) THEN existingDesc
       ELSE Append(existingDesc, <<"-"," ">> \o line)
  ELSE IF DescNonBlank(existingDesc)
       THEN existingDesc \o << <<>>, ComprasHeader, <<"-"," ">> \o line >>
       ELSE << ComprasHeader, <<"-"," ">> \o line >>

(***************************************************************************)
(* Leads, remote tasks, outcomes                                           *)
(***************************************************************************)
Lead(nome, email, whatsapp, cpf, produtos, valor, data) ==
  [nome |-> nome, email |-> email, whatsapp |-> whatsapp, cpf |-> cpf,
   produtos |-> produtos, estado |-> <<>>, valor |-> valor, data |-> data]

NameAna == <<"A","n","a">>
NameAnaM == <<"A","n","a"," ","M">>
NameCaio == <<"C","a","i","o">>

EmailA == <<"a","@","x",".","c","o">>
EmailAUpper == <<"A","@","x",".","c","o">>
Curso == <<"C","u","r","s","o">>
Mentoria == <<"M","e","n","t","o","r","i","a">>
PhoneSP == <<"1","1","9","8","7","6","5","4","3","2","1">>
Date1 == <<"0","1","/","0","2","/","2","0","2","4">>
CpfAna == <<"1","2","3",".","4","5","6",".","7","8","9","-","0","9">>

(***************************************************************************)
(* CSV rows (import_csv.ts)                                                *)
(***************************************************************************)
\* a record of the sales sheet, as csv-parse delivers it
Row(cliente, email, celular, produto, preco, data, cadastrado) ==
  [Cliente |-> cliente, Email |-> email, CPF |-> <<>>, Celular |-> celular,
   Produto |-> produto, Preco |-> preco, Data |-> data, Cadastrado |-> cadastrado]

EmailB == <<"b","@","x",".","c","o">>
EmailD == <<"d","@","x",".","c","o">>
StatusSim == <<"s","i","m">>
StatusErro == <<"e","r","r","o">>

\* the rows that sheets of the model hold, by name
RowNames == {"rAna", "rBia", "rNoMail", "rNoPhone", "rSim"}

RowOf ==
  [w \in RowNames |->
     CASE w = "rAna" ->
            Row(NameAna, EmailA, <<"(","1","1",")"," ","9","8","7","6","5","-","4","3","2","1">>,
                Curso, <<"1","0">>, Date1, <<>>)
       [] w = "rBia" ->
            Row(<<"B","i","a">>, EmailB, <<"+","5","5","2","1","9","9","9","9","0","0","0","0">>,
                Mentoria, <<"R","$"," ","1",".","2","3","4",",","5","6">>, <<>>, StatusErro)
       [] w = "rNoMail" ->
            Row(NameCaio, <<>>, <<>>, Curso, <<"5">>, <<>>, <<>>)
       [] w = "rNoPhone" ->
            Row(<<"D","a","v","i">>, EmailD, <<>>, Curso, <<"5">>, Date1, <<>>)
       [] w = "rSim" ->
            Row(NameAna, EmailA, <<>>, Curso, <<"1","0">>, Date1, <<"S","i","m">>)]

\* toPayload(record), Kiwify layout
toPayload(record) ==
  [produto |-> Trim(record.Produto), nome |-> Trim(record.Cliente),
   email |-> Trim(record.Email), cpf |-> Trim(record.CPF),
   telefone |-> Trim(record.Celular), valor |-> Trim(record.Preco),
   data |-> Trim(record.Data)]

\* !(!email || !nome || !produto)
HasRequired(record) ==
  LET p == toPayload(record)
  IN p.email # <<>> /\ p.nome # <<>> /\ p.produto # <<>>

\* the lead of leadPayload; as JSON, an empty cpf or data is an empty
\* string, which the server treats as an absent one
toLead(record) ==
  LET p == toPayload(record)
      phone == normalizePhone(p.telefone)
  IN Lead(p.nome, p.email, IF phone = <<>> THEN NullV ELSE StrV(phone),
          p.cpf, p.produto, StrV(p.valor), p.data)

\* mark !== 'sim'
IsTarget(record) == ToLowerCase(Trim(record.Cadastrado)) # StatusSim

(***************************************************************************)
(* Request validation (zod)                                                *)
(***************************************************************************)
Alnum == LowerAZ \o UpperAZ \o Digits
LocalChars == Alnum \o <<"_","'","+","-",".">>

\* z.string().email()
IsEmail(s) ==
  LET ats == {k \in 1..Len(s) : s[k] = "@"}
  IN /\ Cardinality(ats) = 1
     /\ LET a == CHOOSE k \in ats : TRUE
            local == SubSeq(s, 1, a - 1)
            dom == SubSeq(s, a + 1, Len(s))
            dots == {k \in 1..Len(dom) : dom[k] = "."}
            lastDot == CHOOSE k \in dots : \A j \in dots : j <= k
        IN /\ local # <<>>
           /\ \A k \in 1..Len(local) : InTable(local[k], LocalChars)
           /\ local[1] # "." /\ local[Len(local)] \notin {".", "'"}
           /\ \A k \in 1..(Len(s) - 1) : ~(s[k] = "." /\ s[k + 1] = ".")
           /\ dots # {}
           /\ Len(dom) - lastDot >= 2
           /\ \A k \in (lastDot + 1)..Len(dom) :
                 InTable(dom[k], SubSeq(LowerAZ, 1, 26) \o SubSeq(UpperAZ, 1, 26))
           /\ \A k \in 1..Len(dom) : InTable(dom[k], Alnum \o <<"-", ".">>)
           /\ InTable(dom[1], Alnum)
           /\ \A k \in dots : InTable(dom[k + 1], Alnum)

\* LeadInputSchema accepts the lead
ValidLead(lead) ==
  /\ lead.nome # <<>>
  /\ lead.email = <<>> \/ IsEmail(lead.email)
  /\ lead.whatsapp.kind \in {"none", "str"}
  /\ lead.estado = <<>> \/ Len(lead.estado) = 2
  /\ lead.valor.kind \in {"none", "str", "num"}

\* the leads that direct requests of the model carry, by name
DirectLeads == {"ana", "anaUp", "caio"}
\* all leads of the model: those, and the lead of each row
LeadNames == DirectLeads \cup RowNames

LeadOf ==
  [l \in LeadNames |->
     CASE l = "ana" -> Lead(NameAna, EmailA, StrV(PhoneSP), CpfAna, Curso,
                            StrV(<<"1","0">>), Date1)
       [] l = "anaUp" -> Lead(NameAnaM, EmailAUpper, NoValue, <<>>, Mentoria,
                              StrV(<<"2",",","5","0">>), Date1)
       [] l = "caio" -> Lead(NameCaio, <<>>, NoValue, <<>>, Curso, NumV(5000), <<>>)
       [] OTHER -> toLead(RowOf[l])]

\* what the handlers compute from a lead alone, tabulated per lead
KeyTbl == [l \in LeadNames |-> KeyOf(LeadOf[l].email)]
AmountTbl == [l \in LeadNames |-> parseCurrencyToNumber(LeadOf[l].valor)]
PhoneTbl == [l \in LeadNames |-> phoneE164Of(LeadOf[l])]
ProductListTbl == [l \in LeadNames |-> toArray(LeadOf[l].produtos)]
DerivedTagsTbl == [l \in LeadNames |-> derivedTagsOf(LeadOf[l])]
ValidTbl == [l \in LeadNames |-> ValidLead(LeadOf[l])]
PurchaseLineTbl ==
  [l \in LeadNames |->
     IF AmountTbl[l].ok /\ ProductListTbl[l] # <<>>
     THEN buildPurchaseLine(LeadOf[l].data, AmountTbl[l].n, ProductListTbl[l][1])
     ELSE <<>>]

\* the field definitions a request holds: fetched, or none after a failure
Schemas == {"full", "empty"}
FieldsTbl == [s \in Schemas |-> IF s = "full" THEN ListFields ELSE <<>>]
\* the fields resolved by name, and the ids used for e-mail and tax id
SchemaTbl ==
  [s \in Schemas |->
     [emailField |-> emailFieldOf(FieldsTbl[s]),
      emailFieldId |-> emailFieldIdOf(FieldsTbl[s]),
      whatsappField |-> whatsappFieldOf(FieldsTbl[s]),
      cpfFieldId |-> cpfFieldIdOf(FieldsTbl[s]),
      produtosField |-> produtosFieldOf(FieldsTbl[s])]]
OptionIdsTbl ==
  [l \in LeadNames |-> [s \in Schemas |-> produtoOptionIdsOf(LeadOf[l], FieldsTbl[s])]]

EmptyCf == [f \in FieldIds |-> NoValue]

\* `by` records who created the task (history)
NoTask ==
  [id |-> 0, name |-> <<>>, tags |-> <<>>, cf |-> EmptyCf, description |-> <<>>,
   by |-> None]

\* bodies of POST /import of the model: non-empty, at most MaxLeads leads
RECURSIVE SeqsUpTo(_, _)
SeqsUpTo(S, n) ==
  IF n = 0 THEN {<<>>}
  ELSE SeqsUpTo(S, n - 1) \cup {Append(q, x) : q \in SeqsUpTo(S, n - 1), x \in S}

ImportBodies == SeqsUpTo(DirectLeads, MaxLeads) \ {<<>>}

\* a task a third party left on the list before the run
SeedTask ==
  [id |-> 1, name |-> NameAna, tags |-> << <<"v","i","p">> >>,
   cf |-> [EmptyCf EXCEPT !["fld-email"] = StrV(EmailA),
                          ![VALOR_VENDA_CUSTOM_FIELD_ID] = StrV(<<"1","0","0">>),
                          !["fld-prod"] = ListV(<< <<"o","1">> >>)],
   description |-> <<>>, by |-> "seed"]

InitialLists == { <<>>, <<SeedTask>> }

(***************************************************************************)
(* State                                                                   *)
(***************************************************************************)
VARIABLES
  tasks,             \* the remote list: its tasks, in listing order
  processingEmails,  \* server.ts: keys claimed by withEmailLock
  req,               \* one record per HTTP request handled by the server
  fails,             \* remote or HTTP calls that have failed so far
  drv,               \* import_csv.ts: the state of the batch driver's run
  calc               \* the helper under evaluation, its inputs and results

vars == <<tasks, processingEmails, req, fails, drv, calc>>

Direct == 1..NDirect
\* the request the driver posts for the row at index idx (from 1)
RowReq(idx) == NDirect + idx
ReqIds == 1..(NDirect + MaxRows)

\* pages findTaskByEmailOnList may fetch
MaxPages == 50
\* defaults of the driver's row window
LIMIT_ROWS == 100
START_ROW == 2

IdleReq ==
  [kind |-> "none", pc |-> "idle", leads |-> <<>>, i |-> 0, schema |-> "empty",
   results |-> <<>>, existing |-> NoTask, page |-> 0, currentProdutoIds |-> <<>>,
   newTotal |-> Null, hasDesc |-> FALSE, newDesc |-> <<>>, k |-> 0, try |-> 1,
   trace |-> <<>>, reply |-> None]

\* the locals of one lead's reconciliation, as they are when it starts
ResetLocals(rq) ==
  [rq EXCEPT !.existing = NoTask, !.page = 0, !.currentProdutoIds = <<>>,
             !.newTotal = Null, !.hasDesc = FALSE, !.newDesc = <<>>,
             !.k = 0, !.try = 1]

CurName(rq) == rq.leads[rq.i]
CurLead(rq) == LeadOf[CurName(rq)]
CurKey(rq) == KeyTbl[CurName(rq)]
SchemaOf(rq) == SchemaTbl[rq.schema]
AmountOf(rq) == AmountTbl[CurName(rq)]
PhoneOf(rq) == PhoneTbl[CurName(rq)]
ProductListOf(rq) == ProductListTbl[CurName(rq)]
OptionIdsOf(rq) == OptionIdsTbl[CurName(rq)][rq.schema]

\* the remote calls issued for the current lead so far (history)
Logged(rq, op, ok) ==
  [rq EXCEPT !.trace[rq.i] = Append(@, [op |-> op, ok |-> ok])]

(***************************************************************************)
(* The remote service                                                      *)
(***************************************************************************)
FirstOf(S) == CHOOSE k \in S : \A j \in S : k <= j

\* GET /list/{id}/task?custom_fields=[{field_id, value}]: the first task
\* holding exactly that value in that field
RemoteFilter(ts, fieldId, value) ==
  LET hits == {k \in 1..Len(ts) : ts[k].cf[fieldId] = StrV(value)}
  IN IF hits = {} THEN NoTask ELSE ts[FirstOf(hits)]

\* GET /list/{id}/task?page=n
RemotePage(ts, page) ==
  SubSeq(ts, page * PageSize + 1,
         IF (page + 1) * PageSize < Len(ts) THEN (page + 1) * PageSize ELSE Len(ts))

\* cfs.find(f => idsToCheck.includes(f.id) && typeof f.value === 'string')
FirstStringField(t, ids) ==
  LET hits == {k \in 1..Len(FieldOrder) :
                 FieldOrder[k] \in ids /\ t.cf[FieldOrder[k]].kind = "str"}
  IN IF hits = {} THEN NoValue ELSE t.cf[FieldOrder[FirstOf(hits)]]

\* a scan that compares the stored value as written
ScanMatchExact(pageTasks, target, ids) ==
  LET hits == {k \in 1..Len(pageTasks) :
                 /\ FirstStringField(pageTasks[k], ids).kind = "str"
                 /\ FirstStringField(pageTasks[k], ids).s = target}
  IN IF hits = {} THEN NoTask ELSE pageTasks[FirstOf(hits)]

\* the task findTaskByEmailOnList returns from one page, or NoTask
ScanMatch(pageTasks, target, ids) ==
  LET hits == {k \in 1..Len(pageTasks) :
                 /\ FirstStringField(pageTasks[k], ids).kind = "str"
                 /\ ToLowerCase(Trim(FirstStringField(pageTasks[k], ids).s)) = target}
  IN IF hits = {} THEN NoTask ELSE pageTasks[FirstOf(hits)]

\* a scan that goes on for as long as the pages have tasks
ScanStepNoCap(ok, pg, hit, page) ==
  IF ~ok THEN "throw"
  ELSE IF pg = <<>> THEN "none"
  ELSE IF hit # NoTask THEN "found"
  ELSE "next"

\* findTaskByEmailOnList after the request for `page` answered with pg, of
\* which hit is the matching task: the request threw, the scan returns
\* null, it returns the task, or it asks for the next page
ScanStep(ok, pg, hit, page) ==
  IF ~ok THEN "throw"
  ELSE IF pg = <<>> THEN "none"
  ELSE IF hit # NoTask THEN "found"
  ELSE IF page + 1 < MaxPages THEN "next"
  ELSE "none"

\* if (!existing) existing = await findTaskByEmailOnList(...)
NeedsScan(found) == found = NoTask

RECURSIVE ApplyCf(_, _)
ApplyCf(cf, writes) ==
  IF writes = <<>> THEN cf
  ELSE ApplyCf([cf EXCEPT ![Head(writes).id] = Head(writes).value], Tail(writes))

\* POST /task/{id}/tag/{name}
RemoteAddTag(t, tag) ==
  IF tag \in Range(t.tags) THEN t ELSE [t EXCEPT !.tags = Append(@, tag)]

(***************************************************************************)
(* POST /import: values computed between the awaits                        *)
(***************************************************************************)
Opt(cond, x) == IF cond THEN <<x>> ELSE <<>>
Write(id, value) == [id |-> id, value |-> value]

\* tags = unionTags(currentTags, derivedTags)
TagsOf(rq) == unionTags(rq.existing.tags, DerivedTagsTbl[CurName(rq)])

\* a merge that keeps the resolved ids alone
MergedProdutoIdsResolvedOnly(rq) == OptionIdsOf(rq)

\* mergedProdutoIds
MergedProdutoIds(rq) ==
  Dedup(rq.currentProdutoIds \o OptionIdsOf(rq))

\* fieldUpdates
FieldUpdatesOf(rq) ==
  LET lead == CurLead(rq)
      sc == SchemaOf(rq)
      merged == MergedProdutoIds(rq)
  IN Opt(lead.email # <<>>, Write(sc.emailFieldId, StrV(lead.email)))
     \o Opt(PhoneOf(rq) # <<>> /\ sc.whatsappField # NoField,
            Write(sc.whatsappField.id, StrV(PhoneOf(rq))))
     \o Opt(lead.cpf # <<>>, Write(sc.cpfFieldId, StrV(lead.cpf)))
     \o Opt(merged # <<>> /\ sc.produtosField # NoField,
            Write(sc.produtosField.id, ListV(merged)))

\* the tags for which the tag loop calls the remote service, in order
RECURSIVE NewTags(_, _)
NewTags(tags, existingNorm) ==
  IF tags = <<>> THEN <<>>
  ELSE IF normalize(Head(tags)) \in existingNorm
       THEN NewTags(Tail(tags), existingNorm)
       ELSE Opt(Trim(Head(tags)) # <<>>, Head(tags))
              \o NewTags(Tail(tags), existingNorm \cup {normalize(Head(tags))})

TagCallsOf(rq) ==
  NewTags(TagsOf(rq), {normalize(rq.existing.tags[k]) : k \in 1..Len(rq.existing.tags)})

\* the task POST /list/{id}/task creates for the current lead
CreatedTask(rq, id) ==
  LET lead == CurLead(rq)
      sc == SchemaOf(rq)
      amt == AmountOf(rq)
      cfArray ==
        Opt(lead.email # <<>>, Write(sc.emailFieldId, StrV(lead.email)))
        \o Opt(PhoneOf(rq) # <<>> /\ sc.whatsappField # NoField,
               Write(sc.whatsappField.id, StrV(PhoneOf(rq))))
        \o Opt(lead.cpf # <<>>, Write(sc.cpfFieldId, StrV(lead.cpf)))
        \o Opt(OptionIdsOf(rq) # <<>> /\ sc.produtosField # NoField,
               Write(sc.produtosField.id, ListV(OptionIdsOf(rq))))
        \o Opt(Truthy(amt),
               Write(VALOR_VENDA_CUSTOM_FIELD_ID, StrV(toClickUpCurrency(amt.n))))
  IN [id |-> id, name |-> lead.nome, tags |-> DerivedTagsTbl[CurName(rq)],
      cf |-> ApplyCf(EmptyCf, cfArray),
      description |->
        IF Truthy(amt) /\ ProductListOf(rq) # <<>>
        THEN << ComprasHeader, <<"-"," ">> \o PurchaseLineTbl[CurName(rq)] >>
        ELSE <<>>,
      by |-> rq.kind]

(***************************************************************************)
(* POST /import: the path of one lead between its awaits                   *)
(***************************************************************************)
\* after the field and total writes: the tag loop, then the comment
AfterTotal(rq) ==
  IF TagCallsOf(rq) # <<>> THEN [rq EXCEPT !.pc = "tag", !.k = 1]
  ELSE [rq EXCEPT !.pc = "comment"]

\* field writes after which the update request is sent again
AfterFieldsPutsAgain(rq) == [rq EXCEPT !.pc = "put"]

AfterFields(rq) ==
  IF Truthy(AmountOf(rq)) /\ rq.newTotal.ok
  THEN [rq EXCEPT !.pc = "total", !.try = 1]
  ELSE AfterTotal(rq)

AfterPut(rq) ==
  IF FieldUpdatesOf(rq) # <<>> THEN [rq EXCEPT !.pc = "field", !.k = 1, !.try = 1]
  ELSE AfterFields(rq)

AfterFresh2(rq) ==
  IF Truthy(AmountOf(rq)) /\ ProductListOf(rq) # <<>>
  THEN [rq EXCEPT !.pc = "fresh3"]
  ELSE [rq EXCEPT !.pc = "put"]

AfterFresh1(rq) ==
  IF Truthy(AmountOf(rq)) THEN [rq EXCEPT !.pc = "fresh2"] ELSE AfterFresh2(rq)

\* the lookup returned task t: the update path starts
BeginUpdate(rq, t) ==
  IF SchemaOf(rq).produtosField # NoField
  THEN [rq EXCEPT !.existing = t, !.pc = "fresh1"]
  ELSE AfterFresh1([rq EXCEPT !.existing = t])

\* a lock whose poll never finds the key taken
LockFreeAlways(key, pe) == TRUE
\* a poll that never finds the key free
LockFreeNever(key, pe) == FALSE

\* while (processingEmails.has(key)) await sleepMs(25)
LockFree(key, pe) == key \notin pe

\* a loop that claims a key for every lead, the empty one included
EnterLeadClaimsAlways(rq, pe) ==
  IF rq.i > Len(rq.leads) THEN [rq |-> [rq EXCEPT !.pc = "done", !.reply = "200"], pe |-> pe]
  ELSE IF LockFree(CurKey(rq), pe)
       THEN [rq |-> [rq EXCEPT !.pc = "filter"], pe |-> pe \cup {CurKey(rq)}]
       ELSE [rq |-> [rq EXCEPT !.pc = "lock"], pe |-> pe]

\* the for loop reaches lead rq.i: withEmailLock runs up to its first await
EnterLead(rq, pe) ==
  IF rq.i > Len(rq.leads) THEN [rq |-> [rq EXCEPT !.pc = "done", !.reply = "200"], pe |-> pe]
  ELSE LET key == CurKey(rq)
       IN IF key = <<>> THEN [rq |-> [rq EXCEPT !.pc = "create"], pe |-> pe]
          ELSE IF LockFree(key, pe)
               THEN [rq |-> [rq EXCEPT !.pc = "filter"], pe |-> pe \cup {key}]
               ELSE [rq |-> [rq EXCEPT !.pc = "lock"], pe |-> pe]

\* an exit that leaves the key in the set
ReleaseNothing(key, pe) == pe

\* finally { processingEmails.delete(key) }
Release(key, pe) == pe \ {key}

\* an end of a lead that pushes its outcome twice
FinishLeadTwice(rq, pe, action, taskId, error) ==
  LET out == [email |-> CurLead(rq).email, action |-> action, taskId |-> taskId,
              error |-> error]
  IN EnterLead(ResetLocals([rq EXCEPT !.results = @ \o <<out, out>>, !.i = @ + 1]),
               IF CurKey(rq) = <<>> THEN pe ELSE Release(CurKey(rq), pe))

\* the reconciliation of lead rq.i ends: its outcome is pushed, its claim
\* released, and the loop goes on to the next lead
FinishLead(rq, pe, action, taskId, error) ==
  LET lead == CurLead(rq)
      out == [email |-> lead.email, action |-> action, taskId |-> taskId, error |-> error]
  IN EnterLead(ResetLocals([rq EXCEPT !.results = Append(@, out), !.i = @ + 1]),
               IF CurKey(rq) = <<>> THEN pe ELSE Release(CurKey(rq), pe))

\* a failure that ends the whole request instead of one lead
ThrowEndsRequest(rq, pe, op) ==
  [rq |-> [rq EXCEPT !.pc = "done", !.reply = "500"],
   pe |-> IF CurKey(rq) = <<>> THEN pe ELSE Release(CurKey(rq), pe)]

\* a failed call after which the lead is created instead
ThrowThenCreates(rq, pe, op) == [rq |-> [rq EXCEPT !.pc = "create"], pe |-> pe]

\* a remote call threw out of the reconciliation: catch pushes `skipped`
Throw(rq, pe, op) == FinishLead(rq, pe, "skipped", 0, "error: " \o op)

Set(r, pair) ==
  /\ req' = [req EXCEPT ![r] = pair.rq]
  /\ processingEmails' = pair.pe

Keep(rq) == [rq |-> rq, pe |-> processingEmails]

CanFail == fails < MaxFails
Outcome(ok) ==
  /\ ok \/ CanFail
  /\ fails' = IF ok THEN fails ELSE fails + 1

(***************************************************************************)
(* POST /import                                                            *)
(***************************************************************************)
RECURSIVE SumLens(_)
SumLens(S) ==
  IF S = {} THEN 0
  ELSE LET r == CHOOSE x \in S : TRUE IN Len(req[r].leads) + SumLens(S \ {r})

\* request r is the next to arrive, carrying n leads: requests are numbered
\* in their order of arrival
Arrives(r, n) ==
  /\ r \in Direct
  /\ req[r].kind = "none"
  /\ \A q \in Direct : q < r => req[q].kind # "none"
  /\ SumLens(Direct) + n + Len(drv.rows) <= MaxWork

\* the request the driver posted for a row reaches the server
RowArrives(r, leads) ==
  \E idx \in drv.posted :
    /\ r = RowReq(idx)
    /\ req[r].kind = "none"
    /\ leads = <<drv.rows[idx]>>

\* ImportBodySchema.safeParse(req.body).success
ValidBody(leads) == leads # <<>> /\ \A j \in 1..Len(leads) : ValidTbl[leads[j]]

\* a request arrives: an invalid body is answered 400 at once, for a valid
\* one the field definitions are fetched
StartImport(r, leads) ==
  /\ \/ leads \in ImportBodies /\ Arrives(r, Len(leads))
     \/ RowArrives(r, leads)
  /\ req' = [req EXCEPT ![r] =
               IF ValidBody(leads)
               THEN [IdleReq EXCEPT !.kind = "import", !.pc = "schema", !.leads = leads,
                                    !.i = 1, !.trace = [j \in 1..Len(leads) |-> <<>>]]
               ELSE [IdleReq EXCEPT !.kind = "import", !.pc = "done", !.leads = leads,
                                    !.i = 1, !.trace = [j \in 1..Len(leads) |-> <<>>],
                                    !.reply = "400"]]
  /\ UNCHANGED <<tasks, processingEmails, fails, drv, calc>>

\* try { fields = await getListCustomFields(listId) } catch {}
SchemaDone(r, ok) ==
  /\ req[r].kind = "import" /\ req[r].pc = "schema"
  /\ Outcome(ok)
  /\ Set(r, EnterLead([req[r] EXCEPT !.schema = IF ok THEN "full" ELSE "empty"],
                      processingEmails))
  /\ UNCHANGED tasks
  /\ UNCHANGED <<drv, calc>>

\* the poll of withEmailLock finds the key free and claims it
Acquire(r) ==
  /\ req[r].pc = "lock"
  /\ LockFree(CurKey(req[r]), processingEmails)
  /\ Set(r, EnterLead(req[r], processingEmails))
  /\ UNCHANGED <<tasks, fails>>
  /\ UNCHANGED <<drv, calc>>

\* findTaskByEmailUsingFilter answers; a failure counts as "no task"
FilterDone(r, ok) ==
  /\ req[r].pc = "filter"
  /\ Outcome(ok)
  /\ LET rq == Logged(req[r], "filter", ok)
         found == IF ok THEN RemoteFilter(tasks, SchemaOf(rq).emailFieldId,
                                          Trim(CurLead(rq).email))
                  ELSE NoTask
     IN Set(r, Keep(IF NeedsScan(found) THEN [rq EXCEPT !.pc = "scan", !.page = 0]
                    ELSE BeginUpdate(rq, found)))
  /\ UNCHANGED tasks
  /\ UNCHANGED <<drv, calc>>

\* one page of findTaskByEmailOnList answers; a failure is thrown
ScanPage(r, ok) ==
  /\ req[r].pc = "scan"
  /\ Outcome(ok)
  /\ LET rq == Logged(req[r], "page", ok)
         pg == RemotePage(tasks, rq.page)
         ids == {SchemaOf(rq).emailFieldId, EMAIL_CUSTOM_FIELD_ID}
         hit == ScanMatch(pg, CurKey(rq), ids)
         step == ScanStep(ok, pg, hit, rq.page)
     IN Set(r, IF step = "throw" THEN Throw(rq, processingEmails, "page")
               ELSE IF step = "none" THEN Keep([rq EXCEPT !.pc = "create"])
               ELSE IF step = "found" THEN Keep(BeginUpdate(rq, hit))
               ELSE Keep([rq EXCEPT !.page = @ + 1]))
  /\ UNCHANGED tasks
  /\ UNCHANGED <<drv, calc>>

\* try { freshTask = await getTaskById(taskId) } catch {}: product options
Fresh1Done(r, ok) ==
  /\ req[r].pc = "fresh1"
  /\ Outcome(ok)
  /\ LET rq == Logged(req[r], "get", ok)
         freshTask == IF ok THEN tasks[rq.existing.id] ELSE rq.existing
         currentCf == freshTask.cf[SchemaOf(rq).produtosField.id]
     IN Set(r, Keep(AfterFresh1([rq EXCEPT !.currentProdutoIds =
                       IF currentCf.kind = "list" THEN currentCf.ids ELSE <<>>])))
  /\ UNCHANGED tasks
  /\ UNCHANGED <<drv, calc>>

\* a total that is the lead's amount alone
NewTotalOverwrites(readOk, fresh, amount) == Num(amount)

\* the running total: currentVal is read fresh, 0 when the read fails
NewTotal(readOk, fresh, amount) ==
  LET parsed == parseCurrencyToNumber(fresh.cf[VALOR_VENDA_CUSTOM_FIELD_ID])
      currentVal == IF readOk /\ Truthy(parsed) THEN parsed.n ELSE 0
  IN Num(currentVal + amount)

Fresh2Done(r, ok) ==
  /\ req[r].pc = "fresh2"
  /\ Outcome(ok)
  /\ LET rq == Logged(req[r], "get", ok)
     IN Set(r, Keep(AfterFresh2([rq EXCEPT !.newTotal =
                       NewTotal(ok, tasks[rq.existing.id], AmountOf(rq).n)])))
  /\ UNCHANGED tasks
  /\ UNCHANGED <<drv, calc>>

\* the description is read fresh and the purchase line appended
Fresh3Done(r, ok) ==
  /\ req[r].pc = "fresh3"
  /\ Outcome(ok)
  /\ LET rq == Logged(req[r], "get", ok)
         fresh == tasks[rq.existing.id]
         existingDesc == IF ok /\ fresh.description # <<>> THEN fresh.description
                         ELSE rq.existing.description
         line == PurchaseLineTbl[CurName(rq)]
     IN Set(r, Keep([rq EXCEPT !.hasDesc = TRUE,
                               !.newDesc = appendPurchase(existingDesc, line),
                               !.pc = "put"]))
  /\ UNCHANGED tasks
  /\ UNCHANGED <<drv, calc>>

\* await axios.put(url, updatePayload): name and description
PutDone(r, ok) ==
  /\ req[r].pc = "put"
  /\ Outcome(ok)
  /\ LET rq == Logged(req[r], "put", ok)
         id == rq.existing.id
         named == IF CurLead(rq).nome # rq.existing.name
                  THEN [tasks[id] EXCEPT !.name = CurLead(rq).nome] ELSE tasks[id]
         described == IF rq.hasDesc THEN [named EXCEPT !.description = rq.newDesc]
                      ELSE named
     IN /\ tasks' = IF ok THEN [tasks EXCEPT ![id] = described] ELSE tasks
        /\ Set(r, IF ok THEN Keep(AfterPut(rq)) ELSE Throw(rq, processingEmails, "put"))
  /\ UNCHANGED <<drv, calc>>

\* results of one POST of setCustomFieldValue: accepted, refused with
\* status 404 or 405, refused with another status, left without a response
PostResults == {"ok", "e404", "e405", "err", "none"}

PostOutcome(res) ==
  /\ res = "ok" \/ CanFail
  /\ fails' = IF res = "ok" THEN fails ELSE fails + 1

\* a call that tries the alternate URL after any failure
SetFieldResultRetriesAll(try, res) ==
  IF res = "ok" THEN "returned"
  ELSE IF try = 1 THEN "retry"
  ELSE "threw"

\* setCustomFieldValue after one of its POSTs answered: "retry" when the
\* alternate URL is tried next, else whether the call returned or threw
SetFieldResult(try, res) ==
  IF res = "ok" THEN "returned"
  ELSE IF try = 1 /\ res \in {"e404", "e405"} THEN "retry"
  ELSE "threw"

\* POST /task/{id}/field/{fieldId}[/value]
RemoteSetField(ts, id, w) == [ts EXCEPT ![id].cf[w.id] = w.value]

\* for (const f of fieldUpdates) try { await setCustomFieldValue(...) } catch {}
FieldDone(r, res) ==
  /\ req[r].pc = "field"
  /\ res \in PostResults
  /\ PostOutcome(res)
  /\ LET rq == Logged(req[r], IF req[r].try = 1 THEN "field" ELSE "field/value", res = "ok")
         w == FieldUpdatesOf(rq)[rq.k]
         next == IF rq.k < Len(FieldUpdatesOf(rq))
                 THEN [rq EXCEPT !.k = @ + 1, !.try = 1]
                 ELSE AfterFields(rq)
     IN /\ tasks' = IF res = "ok" THEN RemoteSetField(tasks, rq.existing.id, w) ELSE tasks
        /\ Set(r, Keep(IF SetFieldResult(rq.try, res) = "retry"
                       THEN [rq EXCEPT !.try = 2] ELSE next))
  /\ UNCHANGED <<drv, calc>>

\* await setCustomFieldValue(taskId, VALOR_VENDA_CUSTOM_FIELD_ID, total)
TotalDone(r, res) ==
  /\ req[r].pc = "total"
  /\ res \in PostResults
  /\ PostOutcome(res)
  /\ LET rq == Logged(req[r], IF req[r].try = 1 THEN "total" ELSE "total/value", res = "ok")
         w == Write(VALOR_VENDA_CUSTOM_FIELD_ID, StrV(toClickUpCurrency(rq.newTotal.n)))
         how == SetFieldResult(rq.try, res)
     IN /\ tasks' = IF res = "ok" THEN RemoteSetField(tasks, rq.existing.id, w) ELSE tasks
        /\ Set(r, IF how = "retry" THEN Keep([rq EXCEPT !.try = 2])
                  ELSE IF how = "returned" THEN Keep(AfterTotal(rq))
                  ELSE Throw(rq, processingEmails, "total"))
  /\ UNCHANGED <<drv, calc>>

\* the tag loop: one addTagToTask answered; a failure leaves the loop
TagDone(r, ok) ==
  /\ req[r].pc = "tag"
  /\ Outcome(ok)
  /\ LET rq == Logged(req[r], "tag", ok)
         id == rq.existing.id
         tag == TagCallsOf(rq)[rq.k]
     IN /\ tasks' = IF ok THEN [tasks EXCEPT ![id] = RemoteAddTag(@, tag)] ELSE tasks
        /\ Set(r, Keep(IF ok /\ rq.k < Len(TagCallsOf(rq))
                       THEN [rq EXCEPT !.k = @ + 1]
                       ELSE [rq EXCEPT !.pc = "comment"]))
  /\ UNCHANGED <<drv, calc>>

\* await addTaskComment(...); results.push({action: 'updated'})
CommentDone(r, ok) ==
  /\ req[r].pc = "comment"
  /\ Outcome(ok)
  /\ LET rq == Logged(req[r], "comment", ok)
     IN Set(r, IF ok THEN FinishLead(rq, processingEmails, "updated", rq.existing.id, None)
               ELSE Throw(rq, processingEmails, "comment"))
  /\ UNCHANGED tasks
  /\ UNCHANGED <<drv, calc>>

\* await axios.post(url, createPayload); results.push({action: 'created'})
CreateDone(r, ok) ==
  /\ req[r].kind = "import" /\ req[r].pc = "create"
  /\ Outcome(ok)
  /\ LET rq == Logged(req[r], "create", ok)
         id == Len(tasks) + 1
     IN /\ tasks' = IF ok THEN Append(tasks, CreatedTask(rq, id)) ELSE tasks
        /\ Set(r, IF ok THEN FinishLead(rq, processingEmails, "created", id, None)
                  ELSE Throw(rq, processingEmails, "create"))
  /\ UNCHANGED <<drv, calc>>

(***************************************************************************)
(* POST /tasks with a lead body                                            *)
(***************************************************************************)
\* a requested product against the options: exact id, then normalized label
ResolveOneExact(raw, options) ==
  LET trimmed == Trim(raw)
      byLabel == {k \in 1..Len(options) :
                    options[k].label # <<>>
                    /\ normalize(options[k].label) = normalize(trimmed)}
  IN IF trimmed = <<>> THEN <<>>
     ELSE IF \E k \in 1..Len(options) : options[k].id = trimmed THEN <<trimmed>>
     ELSE IF byLabel # {}
          THEN <<options[CHOOSE k \in byLabel : \A j \in byLabel : j <= k].id>>
     ELSE <<>>

RECURSIVE ResolveAllExact(_, _)
ResolveAllExact(productList, options) ==
  IF productList = <<>> THEN <<>>
  ELSE ResolveOneExact(Head(productList), options)
         \o ResolveAllExact(Tail(productList), options)

\* chosenOptionIds of POST /tasks, tabulated per lead and schema
ExactOptionIdsTbl ==
  [l \in LeadNames |->
     [s \in Schemas |->
        IF ProductListTbl[l] # <<>> /\ SchemaTbl[s].produtosField # NoField
        THEN ResolveAllExact(ProductListTbl[l], SchemaTbl[s].produtosField.options)
        ELSE <<>>]]

\* the task POST /tasks creates for a lead
TasksCreatedTask(rq, id) ==
  LET lead == CurLead(rq)
      sc == SchemaOf(rq)
      amt == AmountOf(rq)
      chosen == ExactOptionIdsTbl[CurName(rq)][rq.schema]
      cfs ==
        Opt(lead.email # <<>> /\ sc.emailField # NoField,
            Write(sc.emailField.id, StrV(lead.email)))
        \o Opt(PhoneOf(rq) # <<>> /\ sc.whatsappField # NoField,
               Write(sc.whatsappField.id, StrV(PhoneOf(rq))))
        \o Opt(lead.cpf # <<>>, Write(sc.cpfFieldId, StrV(lead.cpf)))
        \o Opt(chosen # <<>>, Write(sc.produtosField.id, ListV(chosen)))
        \o Opt(Truthy(amt),
               Write(VALOR_VENDA_CUSTOM_FIELD_ID, StrV(toClickUpCurrency(amt.n))))
  IN [id |-> id, name |-> lead.nome, tags |-> DerivedTagsTbl[CurName(rq)],
      cf |-> ApplyCf(EmptyCf, cfs),
      description |->
        IF Truthy(amt) /\ ProductListOf(rq) # <<>>
        THEN << ComprasHeader, <<"-"," ">> \o PurchaseLineTbl[CurName(rq)] >>
        ELSE <<>>,
      by |-> rq.kind]

StartTasksLead(r, lead) ==
  /\ Arrives(r, 1)
  /\ req' = [req EXCEPT ![r] =
               [IdleReq EXCEPT !.kind = "tasks", !.pc = "schema", !.leads = <<lead>>,
                               !.i = 1, !.trace = << <<>> >>]]
  /\ UNCHANGED <<tasks, processingEmails, fails>>
  /\ UNCHANGED <<drv, calc>>

TasksSchemaDone(r, ok) ==
  /\ req[r].kind = "tasks" /\ req[r].pc = "schema"
  /\ Outcome(ok)
  /\ req' = [req EXCEPT ![r].schema = IF ok THEN "full" ELSE "empty", ![r].pc = "create"]
  /\ UNCHANGED <<tasks, processingEmails>>
  /\ UNCHANGED <<drv, calc>>

TasksCreateDone(r, ok) ==
  /\ req[r].kind = "tasks" /\ req[r].pc = "create"
  /\ Outcome(ok)
  /\ LET rq == Logged(req[r], "create", ok)
         id == Len(tasks) + 1
     IN /\ tasks' = IF ok THEN Append(tasks, TasksCreatedTask(rq, id)) ELSE tasks
        /\ req' = [req EXCEPT ![r] =
                     [rq EXCEPT !.pc = "done", !.reply = IF ok THEN "201" ELSE "error"]]
  /\ UNCHANGED processingEmails
  /\ UNCHANGED <<drv, calc>>

(***************************************************************************)
(* The batch driver (import_csv.ts)                                        *)
(***************************************************************************)
\* the sheets a run may be given; <<>>: no run of the driver
CsvFiles == SeqsUpTo(RowNames, MaxWork)

\* targets: the indexes of the rows in [startIdx, endIdx] not marked 'sim'
Targets(rows) ==
  LET startIdx == IF START_ROW - 2 > 0 THEN START_ROW - 2 ELSE 0
      endIdx == IF startIdx + LIMIT_ROWS - 1 < Len(rows) - 1
                THEN startIdx + LIMIT_ROWS - 1 ELSE Len(rows) - 1
  IN SelectSeq([k \in 1..Len(rows) |-> k],
               LAMBDA k : /\ startIdx <= k - 1 /\ k - 1 <= endIdx
                          /\ IsTarget(RowOf[rows[k]]))

\* the driver after reading the sheet and building its queue
DriverAt(rows) ==
  [rows |-> rows,
   statuses |-> [k \in 1..Len(rows) |-> RowOf[rows[k]].Cadastrado],
   file |-> [k \in 1..Len(rows) |-> RowOf[rows[k]].Cadastrado],
   queue |-> Targets(rows),
   posted |-> {}, pending |-> {}, handled |-> <<>>,
   pc |-> IF rows = <<>> THEN "off" ELSE "loop",
   processed |-> 0, created |-> 0, updated |-> 0, skipped |-> 0,
   errors |-> <<>>]

\* writeOutIncremental(): the status column on disk; a failed write is
\* logged and leaves the sheet as it was (any write to the disk may fail)
writeOut(d, ok) ==
  IF ok THEN [k \in 1..Len(d.rows) |->
                IF d.statuses[k] # <<>> THEN d.statuses[k]
                ELSE RowOf[d.rows[k]].Cadastrado]
  ELSE d.file

\* the catch of a row's handler, and its validation failure
RowError(d, idx, error) ==
  [d EXCEPT !.skipped = @ + 1,
            !.errors = Append(@, [line |-> idx + 1, email |-> toPayload(RowOf[d.rows[idx]]).email,
                                  error |-> error]),
            !.statuses[idx] = StatusErro,
            !.pending = @ \ {idx}]

\* the handlers of a batch run up to their first await, in order
RECURSIVE StartHandlers(_, _)
StartHandlers(d, batch) ==
  IF batch = <<>> THEN d
  ELSE LET idx == Head(batch)
           h == [d EXCEPT !.handled = Append(@, idx)]
       IN StartHandlers(
            IF ~HasRequired(RowOf[d.rows[idx]])
            THEN RowError(h, idx, "Campos obrigatorios ausentes")
            ELSE [h EXCEPT !.posted = @ \cup {idx}, !.pending = @ \cup {idx}],
            Tail(batch))

\* batch = queue.splice(0, CONCURRENCY); Promise.all(batch.map(...))
DispatchBatch ==
  /\ drv.pc = "loop" /\ drv.queue # <<>>
  /\ LET n == IF Len(drv.queue) < CONCURRENCY THEN Len(drv.queue) ELSE CONCURRENCY
         batch == SubSeq(drv.queue, 1, n)
     IN drv' = StartHandlers([drv EXCEPT !.queue = SubSeq(@, n + 1, Len(@)),
                                         !.pc = "await"], batch)
  /\ UNCHANGED <<tasks, processingEmails, req, fails, calc>>

\* a handler that marks every answered row as done
StatusAfterAlwaysDone(action, old) == StatusSim

\* statuses[idx] after a response carrying `action`
StatusAfter(action, old) ==
  IF action \in {"created", "updated"} THEN StatusSim
  ELSE IF action = "skipped" THEN StatusErro
  ELSE old

\* the handler of row idx after axios.post settled with the answer rq
RowSettled(d, idx, rq) ==
  LET result == rq.results[1]
  IN IF rq.reply # "200" THEN RowError(d, idx, rq.reply)
     ELSE [d EXCEPT
             !.processed = @ + 1,
             !.created = IF result.action = "created" THEN @ + 1 ELSE @,
             !.updated = IF result.action = "updated" THEN @ + 1 ELSE @,
             !.skipped = IF result.action = "skipped" THEN @ + 1 ELSE @,
             !.errors = IF result.action = "skipped"
                        THEN Append(@, [line |-> idx + 1,
                                        email |-> toPayload(RowOf[d.rows[idx]]).email,
                                        error |-> result.error])
                        ELSE @,
             !.statuses[idx] = StatusAfter(result.action, @),
             !.pending = @ \ {idx}]

\* the answer of the server reaches the handler of row idx
RowResponse(idx) ==
  /\ idx \in drv.pending
  /\ req[RowReq(idx)].pc = "done"
  /\ drv' = RowSettled(drv, idx, req[RowReq(idx)])
  /\ UNCHANGED <<tasks, processingEmails, req, fails, calc>>

\* axios.post rejects without an answer (timeout: 60000, connection error)
RowNoResponse(idx) ==
  /\ idx \in drv.pending
  /\ CanFail
  /\ fails' = fails + 1
  /\ drv' = RowError(drv, idx, "timeout")
  /\ UNCHANGED <<tasks, processingEmails, req, calc>>

\* a loop that goes on without waiting for the handlers of the batch
BatchDoneEarly(ok) ==
  /\ drv.pc = "await"
  /\ drv' = [drv EXCEPT !.pc = "loop", !.file = writeOut(drv, ok)]
  /\ UNCHANGED <<tasks, processingEmails, req, fails, calc>>

\* Promise.all settles; writeOutIncremental(); await sleep(0)
BatchDone(ok) ==
  /\ drv.pc = "await" /\ drv.pending = {}
  /\ drv' = [drv EXCEPT !.pc = "loop", !.file = writeOut(drv, ok)]
  /\ UNCHANGED <<tasks, processingEmails, req, fails, calc>>

\* the queue is empty: the final write and the summary
Finish(ok) ==
  /\ drv.pc = "loop" /\ drv.queue = <<>>
  /\ drv' = [drv EXCEPT !.pc = "done", !.file = writeOut(drv, ok)]
  /\ UNCHANGED <<tasks, processingEmails, req, fails, calc>>

(***************************************************************************)
(* The helpers on their own                                                *)
(***************************************************************************)
NoCalc == [fn |-> "none"]

\* the service at rest: no request, no run of the driver
AtRest ==
  /\ tasks = <<>>
  /\ processingEmails = {}
  /\ req = [r \in ReqIds |-> IdleReq]
  /\ fails = 0
  /\ drv = DriverAt(<<>>)

TagPool ==
  { <<"V","I","P">>, <<"v","i","p">>, <<" ","S","ã","o"," "," ","P","a","u","l","o">>,
    <<"s","a","o"," ","p","a","u","l","o">>, <<"S","P">>, <<>> }
TagLists == SeqsUpTo(TagPool, MaxTags)

InitTags ==
  /\ AtRest
  /\ calc \in {[fn |-> "unionTags", E |-> e, D |-> d, once |-> <<>>, twice |-> <<>>,
                step |-> 0] : e \in TagLists, d \in TagLists}

\* unionTags(E, D)
MergeOnce ==
  /\ calc.fn = "unionTags" /\ calc.step = 0
  /\ calc' = [calc EXCEPT !.once = unionTags(calc.E, calc.D), !.step = 1]
  /\ UNCHANGED <<tasks, processingEmails, req, fails, drv>>

\* unionTags(unionTags(E, D), D)
MergeAgain ==
  /\ calc.fn = "unionTags" /\ calc.step = 1
  /\ calc' = [calc EXCEPT !.twice = unionTags(calc.once, calc.D), !.step = 2]
  /\ UNCHANGED <<tasks, processingEmails, req, fails, drv>>

NextTags == MergeOnce \/ MergeAgain

SpecTags == InitTags /\ [][NextTags]_vars

AmountPool ==
  { StrV(<<"1","0">>), StrV(<<"5">>), StrV(<<"2",",","5","0">>), NumV(2500),
    StrV(<<"R","$"," ","1",".","2","3","4",",","5","6">>), StrV(<<"1",".","2","3","4">>),
    StrV(<<"0">>), StrV(<<"a">>) }
AmountLists == SeqsUpTo(AmountPool, MaxAmounts) \ {<<>>}

\* the aggregate of a key: none before its task exists, else as stored
InitMoney ==
  /\ AtRest
  /\ calc \in {[fn |-> "aggregate", amounts |-> q, initial |-> v, stored |-> v, k |-> 0]
                : q \in AmountLists, v \in {NoValue, StrV(<<"1","0","0">>)}}

\* the sale amount of the create path, for the first lead of a key
AggregateCreate ==
  /\ calc.fn = "aggregate" /\ calc.k = 0 /\ calc.initial = NoValue
  /\ LET amt == parseCurrencyToNumber(calc.amounts[1])
     IN calc' = [calc EXCEPT !.k = 1,
                             !.stored = IF Truthy(amt) THEN StrV(toClickUpCurrency(amt.n))
                                        ELSE NoValue]
  /\ UNCHANGED <<tasks, processingEmails, req, fails, drv>>

\* the sale amount of the update path, all calls succeeding
AggregateUpdate ==
  /\ calc.fn = "aggregate" /\ calc.k < Len(calc.amounts)
  /\ calc.k > 0 \/ calc.initial # NoValue
  /\ LET amt == parseCurrencyToNumber(calc.amounts[calc.k + 1])
         fresh == [cf |-> [EmptyCf EXCEPT ![VALOR_VENDA_CUSTOM_FIELD_ID] = calc.stored]]
         total == NewTotal(TRUE, fresh, amt.n)
     IN calc' = [calc EXCEPT !.k = @ + 1,
                             !.stored = IF Truthy(amt) THEN StrV(toClickUpCurrency(total.n))
                                        ELSE @]
  /\ UNCHANGED <<tasks, processingEmails, req, fails, drv>>

NextMoney == AggregateCreate \/ AggregateUpdate

SpecMoney == InitMoney /\ [][NextMoney]_vars

CursoPro == Curso \o <<" ","P","r","o">>
\* purchase lines: two purchases, and one whose line starts with the first
PurchaseLines ==
  { buildPurchaseLine(Date1, 10000, Curso), buildPurchaseLine(Date1, 10000, CursoPro),
    buildPurchaseLine(<<>>, 2500, Mentoria) }
\* the lines descriptions are made of
DescLinePool ==
  { <<>>, <<"N","o","t","a","s">>, ComprasHeader, <<" "," ">> \o ComprasHeader }
    \cup {<<"-"," ">> \o l : l \in PurchaseLines}
    \cup {buildPurchaseLine(Date1, 10000, Curso)}
Descriptions == SeqsUpTo(DescLinePool, MaxDescLines)

InitDesc ==
  /\ AtRest
  /\ calc \in {[fn |-> "appendPurchase", desc |-> d, line |-> l, once |-> <<>>,
                twice |-> <<>>, step |-> 0] : d \in Descriptions, l \in PurchaseLines}

\* the description rewrite of the update path
RewriteOnce ==
  /\ calc.fn = "appendPurchase" /\ calc.step = 0
  /\ calc' = [calc EXCEPT !.once = appendPurchase(calc.desc, calc.line), !.step = 1]
  /\ UNCHANGED <<tasks, processingEmails, req, fails, drv>>

\* the rewrite again, on the description the first one produced
RewriteAgain ==
  /\ calc.fn = "appendPurchase" /\ calc.step = 1
  /\ calc' = [calc EXCEPT !.twice = appendPurchase(calc.once, calc.line), !.step = 2]
  /\ UNCHANGED <<tasks, processingEmails, req, fails, drv>>

NextDesc == RewriteOnce \/ RewriteAgain

SpecDesc == InitDesc /\ [][NextDesc]_vars

\* national numbers: an area code of the table and a subscriber number
AreaCodes == {DDD_TO_UF[k][1] : k \in 1..Len(DDD_TO_UF)}
Subscribers == { <<"9","8","7","6","5","4","3","2","1">>, <<"3","3","3","3","4","4","4","4">> }

InitPhone ==
  /\ AtRest
  /\ calc \in {[fn |-> "normalizePhone", ddd |-> a, raw |-> a \o n, phone |-> <<>>,
                e164 |-> <<>>, region |-> <<>>, step |-> 0] :
                a \in AreaCodes, n \in Subscribers}

\* the driver builds the payload: whatsapp: normalizePhone(telefone)
NormalizeNumber ==
  /\ calc.fn = "normalizePhone" /\ calc.step = 0
  /\ calc' = [calc EXCEPT !.phone = normalizePhone(calc.raw), !.step = 1]
  /\ UNCHANGED <<tasks, processingEmails, req, fails, drv>>

\* the server derives the region tag from the number it received
DeriveRegion ==
  /\ calc.fn = "normalizePhone" /\ calc.step = 1
  /\ LET phone == formatPhoneE164(calc.phone)
     IN calc' = [calc EXCEPT !.e164 = phone,
                             !.region = RegionOfDDD(extractDDDFromE164(phone)),
                             !.step = 2]
  /\ UNCHANGED <<tasks, processingEmails, req, fails, drv>>

NextPhone == NormalizeNumber \/ DeriveRegion

SpecPhone == InitPhone /\ [][NextPhone]_vars

\* options an enumerated product field may define: two with the same
\* normalized label, one whose label holds another, one whose id is a label
\* leads ask for, one without a label
OptionPool ==
  { [id |-> <<"o","1">>, label |-> Curso],
    [id |-> <<"o","2">>, label |-> CursoPro],
    [id |-> <<"o","3">>, label |-> <<"C","U","R","S","O">>],
    [id |-> <<"P","r","o">>, label |-> Mentoria],
    [id |-> <<"o","5">>, label |-> <<>>] }
OptionLists ==
  {q \in SeqsUpTo(OptionPool, MaxOptions) :
     \A i, j \in 1..Len(q) : i # j => q[i].id # q[j].id}
\* labels leads ask for
LabelPool ==
  { <<"C","ú","r","s","o">>, <<"P","r","o">>, CursoPro \o <<" ","M","a","x">>,
    <<"o","1">>, <<"z","z","z">>, <<"m","e","n","t","o","r","i","a">> }
RECURSIVE JoinLabels(_)
JoinLabels(q) ==
  IF Len(q) = 1 THEN q[1] ELSE q[1] \o <<";"," ">> \o JoinLabels(Tail(q))
LabelLists == SeqsUpTo(LabelPool, MaxLabels) \ {<<>>}

ProductFieldWith(options) ==
  << [id |-> "fld-prod", name |-> <<"P","r","o","d","u","t","o","s">>, options |-> options] >>

InitProducts ==
  /\ AtRest
  /\ calc \in {[fn |-> "resolve", options |-> o, produtos |-> JoinLabels(q),
                each |-> <<>>, ids |-> <<>>, step |-> 0] :
                o \in OptionLists, q \in LabelLists}

\* the resolution of a lead's products against the options of the field
ResolveProducts ==
  /\ calc.fn = "resolve" /\ calc.step = 0
  /\ LET productList == toArray(calc.produtos)
     IN calc' = [calc EXCEPT
                   !.each = [i \in 1..Len(productList) |->
                               ResolveOne(productList[i], calc.options)],
                   !.ids = produtoOptionIdsOf([produtos |-> calc.produtos],
                                              ProductFieldWith(calc.options)),
                   !.step = 1]
  /\ UNCHANGED <<tasks, processingEmails, req, fails, drv>>

NextProducts == ResolveProducts

SpecProducts == InitProducts /\ [][NextProducts]_vars

\* one call of setCustomFieldValue(taskId, fieldId, value) on its own
FieldValues == {StrV(EmailA), StrV(<<"1","1","0">>), ListV(<< <<"o","1">> >>)}

InitSetField ==
  /\ AtRest
  /\ calc \in {[fn |-> "setCustomFieldValue", fieldId |-> f, value |-> v, try |-> 1,
                posts |-> <<>>, result |-> "pending", stored |-> NoValue] :
                f \in FieldIds, v \in FieldValues}

\* the POST of the current try is answered with res
SetFieldPostAnswers(res) ==
  /\ calc.fn = "setCustomFieldValue" /\ calc.result = "pending"
  /\ LET how == SetFieldResult(calc.try, res)
     IN calc' = [calc EXCEPT
                   !.posts = Append(@, [url |-> IF calc.try = 1 THEN "field" ELSE "field/value",
                                        res |-> res]),
                   !.try = IF how = "retry" THEN 2 ELSE @,
                   !.result = IF how = "retry" THEN "pending" ELSE how,
                   !.stored = IF res = "ok" THEN calc.value ELSE @]
  /\ UNCHANGED <<tasks, processingEmails, req, fails, drv>>

NextSetField == \E res \in PostResults : SetFieldPostAnswers(res)

SpecSetField == InitSetField /\ [][NextSetField]_vars

\* the lookup of one lead (server.ts:577-583) against a remote list that
\* may answer each request with any page
EmailASpaced == <<" ","A","@","X",".","c","o"," ">>

\* a task holding dyn under the list's own e-mail field and fb under the
\* configured one
TaskMail(id, dyn, fb) ==
  [NoTask EXCEPT !.id = id, !.by = "seed",
                 !.cf = [EmptyCf EXCEPT !["fld-email"] = dyn, ![EMAIL_CUSTOM_FIELD_ID] = fb]]

ScanTasks ==
  {TaskMail(1, StrV(EmailA), NoValue), TaskMail(2, StrV(EmailASpaced), NoValue),
   TaskMail(3, StrV(EmailB), NoValue), TaskMail(4, NoValue, StrV(EmailA)),
   TaskMail(5, StrV(EmailB), StrV(EmailA)), TaskMail(6, NumV(7), StrV(EmailA))}

PagePool == SeqsUpTo(ScanTasks, PageSize)

\* task t holds the target in one of the candidate fields
HoldsEmail(t, target, ids) ==
  \E f \in ids : t.cf[f].kind = "str" /\ ToLowerCase(Trim(t.cf[f].s)) = target

InitLookup ==
  /\ AtRest
  /\ calc \in {[fn |-> "lookup", email |-> EmailA, schema |-> s, phase |-> "filter",
                page |-> 0, filters |-> 0, pages |-> 0, last |-> "", filterGave |-> NoTask,
                result |-> "pending", task |-> NoTask, passedOver |-> FALSE] :
                s \in Schemas}

\* findTaskByEmailUsingFilter answers: tasks[0], or null after a failure
LookupFilterAnswers(ok, answer) ==
  /\ calc.fn = "lookup" /\ calc.phase = "filter"
  /\ LET found == IF ok THEN answer ELSE NoTask
     IN calc' = [calc EXCEPT !.filters = @ + 1, !.filterGave = found,
                             !.phase = IF NeedsScan(found) THEN "scan" ELSE "done",
                             !.result = IF NeedsScan(found) THEN "pending" ELSE "found",
                             !.task = found]
  /\ UNCHANGED <<tasks, processingEmails, req, fails, drv>>

\* getTasksPage(listId, page) answers with pg, or fails
LookupPageAnswers(ok, pg) ==
  /\ calc.fn = "lookup" /\ calc.phase = "scan"
  /\ LET ids == {SchemaTbl[calc.schema].emailFieldId, EMAIL_CUSTOM_FIELD_ID}
         target == KeyOf(calc.email)
         hit == ScanMatch(pg, target, ids)
         step == ScanStep(ok, pg, hit, calc.page)
         holders == {k \in 1..Len(pg) : HoldsEmail(pg[k], target, ids)}
         passed == /\ ok /\ holders # {}
                   /\ \/ step # "found"
                      \/ pg[FirstOf(holders)] # hit
     IN calc' = [calc EXCEPT
                   !.pages = @ + 1,
                   !.last = IF ~ok THEN "failed" ELSE IF pg = <<>> THEN "empty"
                            ELSE IF hit # NoTask THEN "match" ELSE "nomatch",
                   !.page = IF step = "next" THEN @ + 1 ELSE @,
                   !.phase = IF step = "next" THEN "scan" ELSE "done",
                   !.result = CASE step = "throw" -> "threw" [] step = "found" -> "found"
                                [] step = "none" -> "none" [] OTHER -> "pending",
                   !.task = IF step = "found" THEN hit ELSE NoTask,
                   !.passedOver = @ \/ passed]
  /\ UNCHANGED <<tasks, processingEmails, req, fails, drv>>

NextLookup ==
  \/ \E ok \in BOOLEAN, answer \in ScanTasks \cup {NoTask} : LookupFilterAnswers(ok, answer)
  \/ \E ok \in BOOLEAN, pg \in PagePool : LookupPageAnswers(ok, pg)

SpecLookup == InitLookup /\ [][NextLookup]_vars

\* the driver on its own, on sheets as long as the row window and longer;
\* the server is any service that answers a row's request
WindowLens == {LIMIT_ROWS, LIMIT_ROWS + 1}
WindowSheets ==
  {[k \in 1..n |-> IF k = d THEN "rSim" ELSE w] :
     n \in WindowLens, d \in {0, 1}, w \in {"rAna", "rNoMail"}}

\* what the service answers for a row of the sheets above
AnswerFor(w) ==
  [reply |-> "200",
   results |-> <<[email |-> toPayload(RowOf[w]).email, action |-> "created",
                  taskId |-> 1, error |-> None]>>]

InitWindow ==
  /\ tasks = <<>>
  /\ processingEmails = {}
  /\ req = [r \in ReqIds |-> IdleReq]
  /\ fails = 0
  /\ drv \in {DriverAt(rows) : rows \in WindowSheets}
  /\ calc = NoCalc

\* res = await axios.post(endpoint, leadPayload, ...) for row idx
RowAnswered(idx) ==
  /\ idx \in drv.pending
  /\ drv' = RowSettled(drv, idx, AnswerFor(drv.rows[idx]))
  /\ UNCHANGED <<tasks, processingEmails, req, fails, calc>>

NextWindow ==
  \/ DispatchBatch
  \/ \E idx \in 1..(LIMIT_ROWS + 1) : RowAnswered(idx)
  \/ \E idx \in 1..(LIMIT_ROWS + 1) : RowNoResponse(idx)
  \/ BatchDone(TRUE)
  \/ Finish(TRUE)

SpecWindow == InitWindow /\ [][NextWindow]_vars

(***************************************************************************)
(* Specification                                                           *)
(***************************************************************************)
Init ==
  /\ tasks \in InitialLists
  /\ processingEmails = {}
  /\ req = [r \in ReqIds |-> IdleReq]
  /\ fails = 0
  /\ drv \in {DriverAt(rows) : rows \in CsvFiles}
  /\ calc = NoCalc

Next ==
  \/ \E r \in ReqIds, leads \in ImportBodies \cup {<<w>> : w \in RowNames} :
       StartImport(r, leads)
  \/ \E r \in ReqIds, ok \in BOOLEAN : SchemaDone(r, ok)
  \/ \E r \in ReqIds : Acquire(r)
  \/ \E r \in ReqIds, ok \in BOOLEAN : FilterDone(r, ok)
  \/ \E r \in ReqIds, ok \in BOOLEAN : ScanPage(r, ok)
  \/ \E r \in ReqIds, ok \in BOOLEAN : Fresh1Done(r, ok)
  \/ \E r \in ReqIds, ok \in BOOLEAN : Fresh2Done(r, ok)
  \/ \E r \in ReqIds, ok \in BOOLEAN : Fresh3Done(r, ok)
  \/ \E r \in ReqIds, ok \in BOOLEAN : PutDone(r, ok)
  \/ \E r \in ReqIds, res \in PostResults : FieldDone(r, res)
  \/ \E r \in ReqIds, res \in PostResults : TotalDone(r, res)
  \/ \E r \in ReqIds, ok \in BOOLEAN : TagDone(r, ok)
  \/ \E r \in ReqIds, ok \in BOOLEAN : CommentDone(r, ok)
  \/ \E r \in ReqIds, ok \in BOOLEAN : CreateDone(r, ok)
  \/ \E r \in ReqIds, lead \in DirectLeads : StartTasksLead(r, lead)
  \/ \E r \in ReqIds, ok \in BOOLEAN : TasksSchemaDone(r, ok)
  \/ \E r \in ReqIds, ok \in BOOLEAN : TasksCreateDone(r, ok)
  \/ DispatchBatch
  \/ \E idx \in 1..MaxRows : RowResponse(idx)
  \/ \E idx \in 1..MaxRows : RowNoResponse(idx)
  \/ \E ok \in BOOLEAN : BatchDone(ok)
  \/ \E ok \in BOOLEAN : Finish(ok)

Spec == Init /\ [][Next]_vars

(***************************************************************************)
(* The driver on a sheet of more rows than one batch takes                 *)
(***************************************************************************)
LongSheets == {rows \in SeqsUpTo(RowNames, MaxRows) : Len(rows) > CONCURRENCY}

InitBatches ==
  /\ tasks \in InitialLists
  /\ processingEmails = {}
  /\ req = [r \in ReqIds |-> IdleReq]
  /\ fails = 0
  /\ drv \in {DriverAt(rows) : rows \in LongSheets}
  /\ calc = NoCalc

NextBatches ==
  \/ \E r \in ReqIds, w \in RowNames : StartImport(r, <<w>>)
  \/ \E r \in ReqIds, ok \in BOOLEAN : SchemaDone(r, ok)
  \/ \E r \in ReqIds : Acquire(r)
  \/ \E r \in ReqIds, ok \in BOOLEAN : FilterDone(r, ok)
  \/ \E r \in ReqIds, ok \in BOOLEAN : ScanPage(r, ok)
  \/ \E r \in ReqIds, ok \in BOOLEAN : Fresh1Done(r, ok)
  \/ \E r \in ReqIds, ok \in BOOLEAN : Fresh2Done(r, ok)
  \/ \E r \in ReqIds, ok \in BOOLEAN : Fresh3Done(r, ok)
  \/ \E r \in ReqIds, ok \in BOOLEAN : PutDone(r, ok)
  \/ \E r \in ReqIds, res \in PostResults : FieldDone(r, res)
  \/ \E r \in ReqIds, res \in PostResults : TotalDone(r, res)
  \/ \E r \in ReqIds, ok \in BOOLEAN : TagDone(r, ok)
  \/ \E r \in ReqIds, ok \in BOOLEAN : CommentDone(r, ok)
  \/ \E r \in ReqIds, ok \in BOOLEAN : CreateDone(r, ok)
  \/ DispatchBatch
  \/ \E idx \in 1..MaxRows : RowResponse(idx)
  \/ \E idx \in 1..MaxRows : RowNoResponse(idx)
  \/ \E ok \in BOOLEAN : BatchDone(ok)
  \/ \E ok \in BOOLEAN : Finish(ok)

SpecBatches == InitBatches /\ [][NextBatches]_vars

(***************************************************************************)
(* Progress: every remote call returns or fails, every timer fires         *)
(***************************************************************************)
\* the steps of the server for import request r: an awaited remote call
\* answers or fails, or the 25 ms timer of withEmailLock fires and the poll
\* finds the key free
ServerStep(r) ==
  \/ \E ok \in BOOLEAN : SchemaDone(r, ok)
  \/ Acquire(r)
  \/ \E ok \in BOOLEAN : FilterDone(r, ok)
  \/ \E ok \in BOOLEAN : ScanPage(r, ok)
  \/ \E ok \in BOOLEAN : Fresh1Done(r, ok)
  \/ \E ok \in BOOLEAN : Fresh2Done(r, ok)
  \/ \E ok \in BOOLEAN : Fresh3Done(r, ok)
  \/ \E ok \in BOOLEAN : PutDone(r, ok)
  \/ \E res \in PostResults : FieldDone(r, res)
  \/ \E res \in PostResults : TotalDone(r, res)
  \/ \E ok \in BOOLEAN : TagDone(r, ok)
  \/ \E ok \in BOOLEAN : CommentDone(r, ok)
  \/ \E ok \in BOOLEAN : CreateDone(r, ok)

\* POST /import requests sent straight to the server, no sheet
InitLive ==
  /\ tasks \in InitialLists
  /\ processingEmails = {}
  /\ req = [r \in ReqIds |-> IdleReq]
  /\ fails = 0
  /\ drv = DriverAt(<<>>)
  /\ calc = NoCalc

NextLive ==
  \/ \E r \in Direct, leads \in ImportBodies : StartImport(r, leads)
  \/ \E r \in Direct, ok \in BOOLEAN : SchemaDone(r, ok)
  \/ \E r \in Direct : Acquire(r)
  \/ \E r \in Direct, ok \in BOOLEAN : FilterDone(r, ok)
  \/ \E r \in Direct, ok \in BOOLEAN : ScanPage(r, ok)
  \/ \E r \in Direct, ok \in BOOLEAN : Fresh1Done(r, ok)
  \/ \E r \in Direct, ok \in BOOLEAN : Fresh2Done(r, ok)
  \/ \E r \in Direct, ok \in BOOLEAN : Fresh3Done(r, ok)
  \/ \E r \in Direct, ok \in BOOLEAN : PutDone(r, ok)
  \/ \E r \in Direct, res \in PostResults : FieldDone(r, res)
  \/ \E r \in Direct, res \in PostResults : TotalDone(r, res)
  \/ \E r \in Direct, ok \in BOOLEAN : TagDone(r, ok)
  \/ \E r \in Direct, ok \in BOOLEAN : CommentDone(r, ok)
  \/ \E r \in Direct, ok \in BOOLEAN : CreateDone(r, ok)

\* ENABLED <<ServerStep(r)>>_vars: a call of request r is in flight (it can
\* always answer), or r polls for a key that is free
CanStep(r) ==
  /\ req[r].kind = "import"
  /\ \/ req[r].pc \notin {"lock", "done"}
     \/ req[r].pc = "lock" /\ LockFree(CurKey(req[r]), processingEmails)

\* WF_vars(ServerStep(r)), with the enabling condition written out
Fair(r) == []<>(~CanStep(r)) \/ []<><<ServerStep(r)>>_vars

\* the timer of the poll fires, and every awaited call answers or fails
SpecLive ==
  InitLive /\ [][NextLive]_vars /\ \A r \in Direct : WF_vars(Acquire(r)) /\ Fair(r)

(***************************************************************************)
(* Properties                                                              *)
(***************************************************************************)
Started == {r \in ReqIds : req[r].kind # "none"}
Imports == {r \in ReqIds : req[r].kind = "import"}

\* the positions of POST /import at which a remote task call of the
\* current lead is in flight
TaskCallPcs ==
  {"filter", "scan", "fresh1", "fresh2", "fresh3", "put", "field", "total",
   "tag", "comment", "create"}

AtTaskCall(r) == req[r].kind # "none" /\ req[r].pc \in TaskCallPcs

\* request r is between acquiring the claim on its lead's key and the
\* terminal state of that lead
Reconciling(r) ==
  req[r].kind = "import" /\ req[r].pc \in TaskCallPcs /\ CurKey(req[r]) # <<>>

\* the finished leads of the import requests, as <<request, index>>
Finished == {<<r, j>> \in Imports \X (1..MaxLeads) : j <= Len(req[r].results)}

OutcomeOf(p) == req[p[1]].results[p[2]]
TraceOf(p) == req[p[1]].trace[p[2]]
KeyOfFinished(p) == KeyTbl[req[p[1]].leads[p[2]]]

Called(tr, op, ok) == \E k \in 1..Len(tr) : tr[k].op = op /\ tr[k].ok = ok
SomeFailed(tr) == \E k \in 1..Len(tr) : ~tr[k].ok

\* C1: at every instant at most one reconciliation per key is between
\* acquiring the claim and its terminal state, and that key is claimed
C1_OnePerKey ==
  /\ \A r1, r2 \in ReqIds :
       Reconciling(r1) /\ Reconciling(r2) /\ CurKey(req[r1]) = CurKey(req[r2])
         => r1 = r2
  /\ \A r \in ReqIds : Reconciling(r) => CurKey(req[r]) \in processingEmails

\* a request polls for the key while another reconciles a lead of that key
C1_Witness ==
  \E r1, r2 \in ReqIds :
    /\ r1 # r2
    /\ Reconciling(r1) /\ req[r1].pc = "put"
    /\ req[r2].pc = "lock" /\ CurKey(req[r2]) = CurKey(req[r1])

\* the run so far had no failed remote call and no POST /tasks
CleanRun == fails = 0 /\ \A r \in ReqIds : req[r].kind # "tasks"

WithKey(key) == {p \in Finished : KeyOfFinished(p) = key}
CreatedFor(key) == {p \in WithKey(key) : OutcomeOf(p).action = "created"}
TasksFor(key) ==
  {k \in 1..Len(tasks) :
     \E f \in FieldIds : tasks[k].cf[f].kind = "str" /\ KeyOf(tasks[k].cf[f].s) = key}

\* C2: with all remote calls succeeding, the reconciliations of one e-mail
\* never both create: on a list without a task for it exactly one outcome
\* is `created` and every other is `updated`; when a task for it already
\* exists all are `updated`
C2_NoDoubleCreate ==
  CleanRun =>
    \A key \in {KeyTbl[l] : l \in LeadNames} \ {<<>>} :
      /\ Cardinality(TasksFor(key)) <= 1
      /\ \A p \in WithKey(key) : OutcomeOf(p).action \in {"created", "updated"}
      /\ WithKey(key) # {} =>
           Cardinality(CreatedFor(key))
             = (IF \E k \in TasksFor(key) : tasks[k].by = "seed" THEN 0 ELSE 1)

\* two requests for the same e-mail that overlapped: the one that arrived
\* second created the task, the first one updated it
C2_Witness ==
  /\ CleanRun
  /\ \E r1, r2 \in Imports :
       /\ r1 < r2
       /\ req[r1].pc = "done" /\ req[r2].pc = "done"
       /\ Len(req[r1].leads) = 1 /\ Len(req[r2].leads) = 1
       /\ Len(req[r1].results) = 1 /\ Len(req[r2].results) = 1
       /\ KeyTbl[req[r1].leads[1]] = KeyTbl[req[r2].leads[1]]
       /\ req[r1].results[1].action = "updated"
       /\ req[r2].results[1].action = "created"

\* C3: on both paths that accept a lead, every remote task call for a lead
\* with an e-mail is issued while the reconciliation holds the claim on the
\* key, and a create only after a lookup by e-mail returned nothing
C3_CallsUnderClaim ==
  \A r \in ReqIds :
    AtTaskCall(r) /\ CurKey(req[r]) # <<>> =>
      /\ req[r].kind = "import" /\ CurKey(req[r]) \in processingEmails
      /\ req[r].pc = "create" =>
           \E k \in 1..Len(req[r].trace[req[r].i]) :
             req[r].trace[req[r].i][k].op \in {"filter", "page"}

ResultsOf(r) == req[r].results

\* C4: a POST /import request with n valid leads answers n outcomes, the
\* i-th for the i-th lead, each created, updated or skipped, whichever
\* calls fail, and no outcome changes once appended
C4_OneOutcomePerLead ==
  [][\A r \in ReqIds :
       /\ Len(ResultsOf(r)) <= Len(ResultsOf(r)') /\ Len(ResultsOf(r)') <= Len(ResultsOf(r)) + 1
       /\ SubSeq(ResultsOf(r)', 1, Len(ResultsOf(r))) = ResultsOf(r)
       /\ req[r]'.kind = "import" /\ ValidBody(req[r]'.leads) =>
            /\ Len(ResultsOf(r)') = req[r]'.i - 1
            /\ req[r]'.pc = "done" => Len(ResultsOf(r)') = Len(req[r]'.leads)
            /\ \A j \in 1..Len(ResultsOf(r)') :
                 /\ ResultsOf(r)'[j].email = LeadOf[req[r]'.leads[j]].email
                 /\ ResultsOf(r)'[j].action \in {"created", "updated", "skipped"}]_vars

\* a request of two leads answered after the first one was skipped
C4_Witness ==
  \E r \in Imports :
    /\ req[r].pc = "done" /\ Len(req[r].leads) = 2
    /\ req[r].results[1].action = "skipped"
    /\ req[r].results[2].action \in {"created", "updated"}

\* the rows of the sheet whose handler has finished
Handled == {k \in 1..Len(drv.rows) : k \in drv.posted \ drv.pending}
\* the error entries of the summary for row k
ErrorsOf(k) == {e \in 1..Len(drv.errors) : drv.errors[e].line = k + 1}

\* C5: a lead is skipped only by a failed call of its own reconciliation,
\* with the error attached, and a lead none of whose calls failed is never
\* skipped; a key a request waits for is claimed only while another request
\* reconciles a lead of that key, and a valid request that has answered has an outcome
\* for every lead; a row of a batch is marked by its own answer alone
C5_FailureSkipsOnlyThatLead ==
  /\ \A p \in Finished :
       /\ OutcomeOf(p).action = "skipped" <=>
            (\E k \in 1..Len(TraceOf(p)) :
               /\ ~TraceOf(p)[k].ok
               /\ TraceOf(p)[k].op \in {"page", "put", "total", "total/value", "comment", "create"}
               /\ k = Len(TraceOf(p)))
       /\ OutcomeOf(p).action = "skipped" => OutcomeOf(p).error # None
  /\ \A r \in Imports :
       /\ req[r].pc = "lock" /\ CurKey(req[r]) \in processingEmails =>
            \E q \in Imports \ {r} : Reconciling(q) /\ CurKey(req[q]) = CurKey(req[r])
       /\ req[r].pc = "done" /\ ValidBody(req[r].leads) =>
            Len(req[r].results) = Len(req[r].leads)
  /\ \A k \in Handled :
       LET rq == req[RowReq(k)]
       IN ErrorsOf(k) = {} =>
            /\ rq.pc = "done" /\ rq.reply = "200"
            /\ rq.results[1].action \in {"created", "updated"}
            /\ drv.statuses[k] = StatusSim
  /\ drv.pc = "done" => \A k \in Range(Targets(drv.rows)) : drv.statuses[k] \in {StatusSim, StatusErro}

\* a request whose first lead was skipped on a failed call and whose second
\* lead was then reconciled, and a finished batch of two rows of which one
\* was marked error and the other done
C5_Witness ==
  \/ \E r \in Imports :
       /\ req[r].pc = "done" /\ Len(req[r].results) = 2
       /\ req[r].results[1].action = "skipped" /\ SomeFailed(req[r].trace[1])
       /\ req[r].results[2].action = "updated"
  \/ /\ drv.pc = "done" /\ Len(drv.rows) = 2
     /\ \E j, k \in Handled :
          /\ req[RowReq(j)].pc = "done" /\ Len(req[RowReq(j)].results) = 1
          /\ req[RowReq(j)].results[1].action = "skipped"
          /\ drv.statuses[j] = StatusErro /\ drv.statuses[k] = StatusSim

\* C6: on the update path, once the PUT has succeeded no failure of a
\* custom-field write, of the sale-amount write, of a tag write or of the
\* comment write fails the lead: its outcome is `updated`
C6_WritesDoNotFailLead ==
  \A p \in Finished :
    Called(TraceOf(p), "put", TRUE) =>
      OutcomeOf(p).action = "updated" /\ OutcomeOf(p).taskId # 0

\* C7: on the update path the value written to the sale-amount field is
\* the aggregate stored remotely at that time plus the lead's amount
C7_TotalIsRunningSum ==
  \A r \in ReqIds :
    req[r].kind = "import" /\ req[r].pc = "total" =>
      req[r].newTotal.n
        = (LET cur == parseCurrencyToNumber(
                        tasks[req[r].existing.id].cf[VALOR_VENDA_CUSTOM_FIELD_ID])
           IN IF cur.ok THEN cur.n ELSE 0) + AmountOf(req[r]).n

\* the amounts of the list that are whole cents (or carry no number)
WholeCents(amounts) ==
  \A j \in 1..Len(amounts) : parseCurrencyToNumber(amounts[j]).n % 10 = 0

RECURSIVE SumOf(_, _)
SumOf(amounts, k) ==
  IF k = 0 THEN 0 ELSE SumOf(amounts, k - 1) + parseCurrencyToNumber(amounts[k]).n

\* the number the stored aggregate stands for
StoredNumber(v) == IF v = NoValue THEN 0 ELSE parseCurrencyToNumber(v).n

AggregateIsSum ==
  StoredNumber(calc.stored) = StoredNumber(calc.initial) + SumOf(calc.amounts, calc.k)

\* C8 as stated: after amounts a1..ak were reconciled one after another
\* the sale-amount field equals a1+...+ak, for all amounts
C8_AggregateIsSumOfAmounts == calc.fn = "aggregate" => AggregateIsSum

\* C8: for amounts of whole cents the sale-amount field equals a1+...+ak
\* after each of them; [10, 5, 2.50] leave 17.50 and "R$ 1.234,56" on an
\* aggregate of 100 leaves 1334.56
C8_AggregateIsSumOfCents ==
  calc.fn = "aggregate" =>
    /\ WholeCents(calc.amounts) => AggregateIsSum
    /\ /\ calc.amounts = <<StrV(<<"1","0">>), StrV(<<"5">>), NumV(2500)>>
       /\ calc.initial = NoValue /\ calc.k = 3
       => calc.stored = StrV(<<"1","7",".","5","0">>)
    /\ /\ calc.amounts = <<StrV(<<"R","$"," ","1",".","2","3","4",",","5","6">>)>>
       /\ calc.initial = StrV(<<"1","0","0">>) /\ calc.k = 1
       => calc.stored = StrV(<<"1","3","3","4",".","5","6">>)

\* three amounts of whole cents were applied to a key without a task
C8_Witness ==
  /\ calc.fn = "aggregate" /\ calc.k = 3 /\ calc.initial = NoValue
  /\ calc.amounts = <<StrV(<<"1","0">>), StrV(<<"5">>), StrV(<<"2",",","5","0">>)>>
  /\ calc.stored = StrV(<<"1","7",".","5","0">>)

\* what one successful reconciliation of lead l leaves on the task of its
\* key, on a list that held the seed task or no task for that key
PurchaseLinesIn(desc, l) ==
  {k \in 1..Len(desc) : Includes(desc[k], PurchaseLineTbl[l])}
OnceTotal(l, seeded) ==
  StrV(toClickUpCurrency((IF seeded THEN StoredNumber(SeedTask.cf[VALOR_VENDA_CUSTOM_FIELD_ID])
                          ELSE 0) + AmountTbl[l].n))
OnceTags(l, seeded) ==
  Range(unionTags(IF seeded THEN SeedTask.tags ELSE <<>>, DerivedTagsTbl[l]))
OnceProducts(l, seeded) ==
  Range(OptionIdsTbl[l]["full"])
    \cup (IF seeded THEN Range(SeedTask.cf["fld-prod"].ids) ELSE {})

\* C9: a lead reconciled again after an attempt that ended `skipped` leaves
\* the task with the tags, product options, purchase lines and sale total
\* that one successful reconciliation of it leaves
C9_RerunIsIdempotent ==
  \A r \in Imports :
    /\ Started = {r} /\ req[r].pc = "done" /\ req[r].schema = "full"
    /\ Len(req[r].leads) = 2 /\ req[r].leads[1] = req[r].leads[2]
    /\ Len(req[r].results) = 2
    /\ req[r].results[1].action = "skipped"
    /\ req[r].results[2].action \in {"created", "updated"}
    /\ ~SomeFailed(req[r].trace[2])
    /\ Truthy(AmountTbl[req[r].leads[1]])
    => LET l == req[r].leads[1]
           t == tasks[req[r].results[2].taskId]
           seeded == t.by = "seed"
       IN /\ t.cf[VALOR_VENDA_CUSTOM_FIELD_ID] = OnceTotal(l, seeded)
          /\ {normalize(t.tags[k]) : k \in 1..Len(t.tags)} = OnceTags(l, seeded)
          /\ Range(t.cf["fld-prod"].ids) = OnceProducts(l, seeded)
          /\ Cardinality(PurchaseLinesIn(t.description, l)) = 1

\* C10: merging D into E a second time changes nothing, and no two tags of
\* a merge have the same normalized form
C10_UnionTagsIdempotent ==
  calc.fn = "unionTags" =>
    /\ calc.step = 2 => calc.twice = calc.once
    /\ calc.step >= 1 =>
         \A i, j \in 1..Len(calc.once) :
           normalize(calc.once[i]) = normalize(calc.once[j]) => i = j

\* a merge in which tags of E and D that differ as written fell together
C10_Witness ==
  /\ calc.fn = "unionTags" /\ calc.step = 2
  /\ Len(calc.E) = 2 /\ Len(calc.D) = 2
  /\ calc.E[1] # calc.D[1] /\ normalize(calc.E[1]) = normalize(calc.D[1])
  /\ Len(calc.once) = 2 /\ calc.twice = calc.once

\* the occurrences of a text in a description
Occurrences(desc, text) ==
  {<<k, i>> \in (1..Len(desc)) \X (0..40) :
     i + Len(text) <= Len(desc[k]) /\ SubSeq(desc[k], i + 1, i + Len(text)) = text}

\* the entries of a purchase in a description: the lines "- <line>"
EntriesOf(desc, line) == {k \in 1..Len(desc) : desc[k] = <<"-"," ">> \o line}

SecondRewriteIsNoOp ==
  calc.fn = "appendPurchase" /\ calc.step = 2 =>
    /\ calc.twice = calc.once
    /\ Cardinality(Occurrences(calc.once, calc.line)) >= 1
    /\ LET n == Cardinality(Occurrences(calc.desc, calc.line))
       IN n <= (IF HasComprasSection(calc.desc) THEN 1 ELSE 0) =>
            Cardinality(Occurrences(calc.twice, calc.line)) = 1

\* the line was appended to a section that did not hold it, once
AppendedOnce ==
  /\ calc.fn = "appendPurchase" /\ calc.step = 2
  /\ HasComprasSection(calc.desc) /\ Len(calc.desc) = 2
  /\ Occurrences(calc.desc, calc.line) = {}
  /\ calc.once = Append(calc.desc, <<"-"," ">> \o calc.line)
  /\ calc.twice = calc.once

\* the option ids a task holds remotely in a field
StoredIds(t, fieldId) == IF t.cf[fieldId].kind = "list" THEN t.cf[fieldId].ids ELSE <<>>

\* cur followed by the ids of new that are not in it yet
RECURSIVE FollowedByNew(_, _)
FollowedByNew(cur, new) ==
  IF new = <<>> THEN cur
  ELSE FollowedByNew(IF Head(new) \in Range(cur) THEN cur ELSE Append(cur, Head(new)),
                     Tail(new))

\* the requests about to write the enumerated product field of a task
ProductWriters ==
  {r \in ReqIds : /\ req[r].pc = "field"
                  /\ SchemaOf(req[r]).produtosField # NoField
                  /\ FieldUpdatesOf(req[r])[req[r].k].id = SchemaOf(req[r]).produtosField.id}

\* C12: on the update path the value written to the enumerated product field
\* is the option ids the task holds remotely followed by the newly resolved
\* ids not among them, without duplicates, and no step of the system removes
\* an option from a task
C12_ProductMerge ==
  [][/\ \A r \in ProductWriters :
         LET rq == req[r]
             fid == SchemaOf(rq).produtosField.id
             w == FieldUpdatesOf(rq)[rq.k].value
         IN /\ w = ListV(FollowedByNew(StoredIds(tasks[rq.existing.id], fid), OptionIdsOf(rq)))
            /\ Cardinality(Range(w.ids)) = Len(w.ids)
      /\ \A id \in 1..Len(tasks) : \A f \in FieldIds :
           Range(StoredIds(tasks[id], f)) \subseteq Range(StoredIds(tasks'[id], f))]_vars

\* the seeded task held option o1 alone; a lead whose product resolves to o2
\* updated it, and it holds [o1, o2]
C12_Witness ==
  /\ \E p \in Finished : OutcomeOf(p).action = "updated" /\ OutcomeOf(p).taskId = 1
                          /\ OptionIdsTbl[req[p[1]].leads[p[2]]]["full"] = << <<"o","2">> >>
  /\ Len(tasks) >= 1
  /\ tasks[1].cf["fld-prod"] = ListV(<< <<"o","1">>, <<"o","2">> >>)

\* C13: in the batch driver the requests in flight (posted, their handler
\* not yet settled by an answer or a failure) are never more than
\* CONCURRENCY, and a request is posted only when no request of an earlier
\* batch is still in flight
C13_BatchesBounded ==
  [][/\ Cardinality(drv.pending) <= CONCURRENCY
     /\ Cardinality(drv'.pending) <= CONCURRENCY
     /\ drv.pending \subseteq drv.posted
     /\ drv'.posted # drv.posted => drv.pending = {}]_vars

\* the first batch was full and has settled; the request of the second is
\* in flight
C13_Witness ==
  /\ Len(drv.rows) = MaxRows /\ CONCURRENCY < MaxRows
  /\ drv.posted = 1..MaxRows
  /\ drv.pending = {MaxRows}
  /\ \A idx \in 1..CONCURRENCY : drv.statuses[idx] \in {StatusSim, StatusErro}

\* the rows whose handler has settled in this run
SettledRows == {idx \in Range(Targets(drv.rows)) : idx \notin Range(drv.queue) \cup drv.pending}
\* the settled rows whose outcome the sheet on disk does not show
Unrecorded == {idx \in SettledRows : drv.file[idx] # drv.statuses[idx]}

\* C14: between two batches the sheet on disk shows the outcome of every
\* row handled so far, and at any moment at most one batch of rows
\* (CONCURRENCY rows) is handled but not shown on disk
C14_AtMostOneBatchUnrecorded ==
  /\ drv.pc \in {"loop", "done"} => Unrecorded = {}
  /\ Cardinality(Unrecorded) <= CONCURRENCY

\* the mark a run takes for done
IsDoneMark(status) == ToLowerCase(Trim(status)) = StatusSim
\* the rows for which the server answered, or would answer, created or updated
ReconciledRows ==
  {idx \in 1..Len(drv.rows) :
     LET rq == req[RowReq(idx)]
     IN rq.pc = "done" /\ rq.reply = "200" /\ rq.results[1].action \in {"created", "updated"}}

\* C15: a row marked done when the run starts is never posted and keeps its
\* status in every version of the sheet on disk, and after the run the sheet
\* marks as done every row that was reconciled successfully, so that no
\* later run takes it up again
C15_DoneRowsAreLeftAlone ==
  /\ \A idx \in 1..Len(drv.rows) :
       ~IsTarget(RowOf[drv.rows[idx]]) =>
         /\ idx \notin drv.posted /\ req[RowReq(idx)].kind = "none"
         /\ drv.file[idx] = RowOf[drv.rows[idx]].Cadastrado
  /\ drv.pc = "done" => \A idx \in ReconciledRows : IsDoneMark(drv.file[idx])

\* the target rows that fail the driver's validation, and the other targets
InvalidRows == {idx \in Range(Targets(drv.rows)) : ~HasRequired(RowOf[drv.rows[idx]])}
ValidRows == {idx \in Range(Targets(drv.rows)) : HasRequired(RowOf[drv.rows[idx]])}
ErrorEntries(idx) == {k \in 1..Len(drv.errors) : drv.errors[k].line = idx + 1}

\* a target row missing email, name or product is never posted; once its
\* handler ran it is counted as skipped with one error entry and marked erro
InvalidRowsAreSkipped ==
  \A idx \in InvalidRows :
    /\ idx \notin drv.posted /\ req[RowReq(idx)].kind = "none"
    /\ idx \in SettledRows =>
         /\ drv.statuses[idx] = StatusErro
         /\ Cardinality(ErrorEntries(idx)) = 1
         /\ \A k \in ErrorEntries(idx) : drv.errors[k].error = "Campos obrigatorios ausentes"
    /\ drv.skipped >= Cardinality(InvalidRows \cap SettledRows)

\* C16: a target row missing email, name or product is skipped without a
\* request, and the other rows are still processed: when no call fails, a
\* sheet of one row with email, name and product and one row without email
\* ends with one success and one skipped
C16_InvalidRowSkippedOthersProcessed ==
  /\ InvalidRowsAreSkipped
  /\ ( /\ drv.pc = "done" /\ fails = 0 /\ Len(drv.rows) = 2
       /\ Cardinality(ValidRows) = 1 /\ Cardinality(InvalidRows) = 1 )
     => drv.created + drv.updated = 1 /\ drv.skipped = 1

LookupOps == {"filter", "page"}
\* the finished leads for which a lookup call failed and no other call did
LookupFailedOnly ==
  {p \in Finished : /\ \E k \in 1..Len(TraceOf(p)) : ~TraceOf(p)[k].ok
                    /\ \A k \in 1..Len(TraceOf(p)) :
                         ~TraceOf(p)[k].ok => TraceOf(p)[k].op \in LookupOps}

\* C17: a failed lookup call (the filtered query, or a page request of the
\* scan) counts as "not found" and is never propagated: a lead for which
\* only lookup calls failed does not end skipped
C17_LookupFailureIsNotFound ==
  \A p \in LookupFailedOnly : OutcomeOf(p).action # "skipped"

\* the requests that go on without field definitions: the fetch failed
Degraded == {r \in Imports : req[r].schema = "empty" /\ req[r].pc # "schema"}

\* the custom fields of a task created for a lead without field definitions
DegradedFields(l) ==
  [f \in FieldIds |->
     IF f = EMAIL_CUSTOM_FIELD_ID /\ LeadOf[l].email # <<>> THEN StrV(LeadOf[l].email)
     ELSE IF f = CPF_CUSTOM_FIELD_ID /\ LeadOf[l].cpf # <<>> THEN StrV(LeadOf[l].cpf)
     ELSE IF f = VALOR_VENDA_CUSTOM_FIELD_ID /\ Truthy(AmountTbl[l])
          THEN StrV(toClickUpCurrency(AmountTbl[l].n))
     ELSE NoValue]

\* C18: when the fetch of the field definitions failed the request goes on
\* with an empty schema: none of its leads is skipped unless a call of its
\* own failed, its lookup matches on the configured fallback e-mail field,
\* and a task it creates carries e-mail, tax id and sale amount under the
\* configured fallback ids and no phone or product field
C18_DegradedSchema ==
  [][\A r \in Degraded :
       /\ \A j \in 1..Len(req[r].results) :
            req[r].results[j].action = "skipped" => SomeFailed(req[r].trace[j])
       /\ req[r].pc \in {"filter", "scan"} /\ req'[r].existing # NoTask =>
            /\ req'[r].existing.cf[EMAIL_CUSTOM_FIELD_ID].kind = "str"
            /\ KeyOf(req'[r].existing.cf[EMAIL_CUSTOM_FIELD_ID].s) = CurKey(req[r])
       /\ req[r].pc = "create" /\ Len(tasks') = Len(tasks) + 1 /\ req'[r] # req[r] =>
            tasks'[Len(tasks')].cf = DegradedFields(CurName(req[r]))]_vars

\* a request whose fetch of the field definitions failed created a task for
\* a lead with e-mail, tax id, amount, phone and product: the task holds the
\* first three under the fallback ids and nothing else
C18_Witness ==
  \E r \in Degraded : \E j \in 1..Len(req[r].results) :
    LET l == req[r].leads[j]
        out == req[r].results[j]
    IN /\ out.action = "created"
       /\ LeadOf[l].email # <<>> /\ LeadOf[l].cpf # <<>> /\ Truthy(AmountTbl[l])
       /\ PhoneTbl[l] # <<>> /\ ProductListTbl[l] # <<>>
       /\ tasks[out.taskId].cf[EMAIL_CUSTOM_FIELD_ID] = StrV(LeadOf[l].email)
       /\ tasks[out.taskId].cf[CPF_CUSTOM_FIELD_ID] = StrV(LeadOf[l].cpf)
       /\ tasks[out.taskId].cf[VALOR_VENDA_CUSTOM_FIELD_ID].kind = "str"
       /\ \A f \in {ListFields[k].id : k \in 1..Len(ListFields)} :
            tasks[out.taskId].cf[f] = NoValue

\* C19: a national number given as digits, area code of the table first,
\* without + and without the country code, is normalized to "+55" followed
\* by exactly those digits, and the region derived from the result is the
\* region of its area code
C19_NationalNumberGetsCountryCode ==
  calc.fn = "normalizePhone" /\ calc.step = 2 =>
    /\ calc.phone = <<"+","5","5">> \o calc.raw
    /\ calc.e164 = calc.phone
    /\ calc.region = RegionOfDDD(calc.ddd)

\* the options a label matches at each tier
TierId(l, options) == {k \in 1..Len(options) : options[k].id = l}
TierLabel(l, options) ==
  {k \in 1..Len(options) : normalize(options[k].label) = normalize(l)}
TierFuzzy(l, options) ==
  {k \in 1..Len(options) : \/ Includes(normalize(options[k].label), normalize(l))
                           \/ Includes(normalize(l), normalize(options[k].label))}
RECURSIVE Flat(_)
Flat(q) == IF q = <<>> THEN <<>> ELSE Head(q) \o Flat(Tail(q))
FirstAt(q, x) == FirstOf({k \in 1..Len(q) : q[k] = x})

\* C20: each requested label is resolved by the first tier that matches it:
\* its own text when that is an option id, else an option whose normalized
\* label equals its normalized form, else the first option in definition
\* order whose normalized label contains or is contained in it, else
\* nothing; the result holds ids of the field's options only, each once, in
\* the order in which they were first resolved
C20_TieredResolution ==
  calc.fn = "resolve" /\ calc.step = 1 =>
    LET labels == toArray(calc.produtos)
        opts == calc.options
        all == Flat(calc.each)
    IN /\ Len(calc.each) = Len(labels)
       /\ \A i \in 1..Len(labels) :
            LET l == labels[i]
            IN IF TierId(l, opts) # {} THEN calc.each[i] = <<l>>
               ELSE IF TierLabel(l, opts) # {}
                    THEN \E k \in TierLabel(l, opts) : calc.each[i] = <<opts[k].id>>
               ELSE IF TierFuzzy(l, opts) # {}
                    THEN calc.each[i] = <<opts[FirstOf(TierFuzzy(l, opts))].id>>
               ELSE calc.each[i] = <<>>
       /\ Range(calc.ids) = Range(all)
       /\ Range(calc.ids) \subseteq {opts[k].id : k \in 1..Len(opts)}
       /\ Cardinality(Range(calc.ids)) = Len(calc.ids)
       /\ \A a, b \in 1..Len(calc.ids) :
            a < b => FirstAt(all, calc.ids[a]) < FirstAt(all, calc.ids[b])

\* two labels were resolved, one by its id although other options match it
\* by containment, the other by containment in two options of which the
\* first was taken
C20_Witness ==
  /\ calc.fn = "resolve" /\ calc.step = 1
  /\ calc.options = << [id |-> <<"o","1">>, label |-> Curso],
                       [id |-> <<"o","2">>, label |-> CursoPro],
                       [id |-> <<"P","r","o">>, label |-> Mentoria] >>
  /\ toArray(calc.produtos) = << CursoPro \o <<" ","M","a","x">>, <<"P","r","o">> >>
  /\ calc.ids = << <<"o","1">>, <<"P","r","o">> >>

\* C21: setCustomFieldValue sends at most two requests: the second, to the
\* URL with the suffix /value, exactly when the first was refused with
\* status 404 or 405, and then its result is the result of the call; any
\* other failure of the first surfaces at once, and a first request that
\* succeeds is the only one
C21_AtMostTwoRequests ==
  calc.fn = "setCustomFieldValue" =>
    LET n == Len(calc.posts)
        refused(k) == calc.posts[k].res \in {"e404", "e405"}
    IN /\ n <= 2
       /\ n >= 1 => calc.posts[1].url = "field"
       /\ n = 2 => calc.posts[2].url = "field/value" /\ refused(1)
       /\ calc.result = "pending" => n = 0 \/ (n = 1 /\ refused(1))
       /\ calc.result # "pending" =>
            /\ n = (IF refused(1) THEN 2 ELSE 1)
            /\ calc.result = (IF calc.posts[n].res = "ok" THEN "returned" ELSE "threw")
            /\ calc.stored = (IF calc.posts[n].res = "ok" THEN calc.value ELSE NoValue)

\* the first request was refused with 405, the second was accepted and the
\* call returned
C21_Witness ==
  /\ calc.fn = "setCustomFieldValue" /\ calc.result = "returned"
  /\ Len(calc.posts) = 2
  /\ calc.posts[1] = [url |-> "field", res |-> "e405"]
  /\ calc.posts[2] = [url |-> "field/value", res |-> "ok"]
  /\ calc.stored = calc.value

\* the keys of the reconciliations in flight that hold a claim
HeldKeys == {CurKey(req[r]) : r \in {q \in Imports : Reconciling(q)}}

\* C22: the claim on a key is released on every exit path: the claim set
\* holds exactly the keys of the reconciliations in flight, so the key of a
\* reconciliation that ended (created, updated or skipped) is in it only if
\* another reconciliation has claimed it since, and the set is empty
\* whenever no reconciliation is in flight
C22_ClaimReleased ==
  /\ processingEmails = HeldKeys
  /\ (\A r \in ReqIds : ~Reconciling(r)) => processingEmails = {}
  /\ \A p \in Finished :
       KeyOfFinished(p) \in processingEmails =>
         \E r \in Imports : Reconciling(r) /\ CurKey(req[r]) = KeyOfFinished(p)
                               /\ <<r, req[r].i>> # p

\* a lead ended skipped on a failed call, a later lead of the same key
\* claimed the key and ended created or updated, and nothing is in flight:
\* the claim set is empty
C22_Witness ==
  /\ processingEmails = {}
  /\ \A r \in ReqIds : ~Reconciling(r)
  /\ \E p, q \in Finished :
       /\ KeyOfFinished(p) # <<>> /\ KeyOfFinished(q) = KeyOfFinished(p)
       /\ OutcomeOf(p).action = "skipped"
       /\ OutcomeOf(q).action \in {"created", "updated"}

\* C23: every reconciliation reaches a terminal state: a request that was
\* accepted is answered, and a reconciliation that polls for a held key
\* acquires it and ends with an outcome for its lead
C23_EveryReconciliationEnds ==
  \A r \in Direct :
    /\ (req[r].kind # "none") ~> (req[r].pc = "done")
    /\ \A j \in 1..MaxLeads :
         (req[r].pc = "lock" /\ req[r].i = j) ~> (Len(req[r].results) >= j)

\* a reconciliation polls for a key that another reconciliation holds
C23_Witness ==
  \E r, q \in Imports :
    /\ r # q /\ req[r].pc = "lock"
    /\ Reconciling(q) /\ CurKey(req[q]) = CurKey(req[r])
    /\ CurKey(req[r]) \in processingEmails


UpdateOps ==
  {"get", "put", "field", "field/value", "total", "total/value", "tag", "comment"}
CallsOf(tr, ops) == {k \in 1..Len(tr) : tr[k].op \in ops}

\* the calls of one finished lead: lookups first, then the calls of one path
OnePath(p) ==
  LET tr == TraceOf(p)
      out == OutcomeOf(p).action
  IN /\ out \in {"created", "updated", "skipped"}
     /\ CallsOf(tr, {"create"}) = {} \/ CallsOf(tr, UpdateOps) = {}
     /\ \A j \in CallsOf(tr, LookupOps), k \in CallsOf(tr, UpdateOps \cup {"create"}) : j < k
     /\ out = "created" =>
          /\ Cardinality(CallsOf(tr, {"create"})) = 1
          /\ Called(tr, "create", TRUE)
          /\ CallsOf(tr, UpdateOps) = {}
     /\ out = "updated" =>
          /\ CallsOf(tr, {"create"}) = {}
          /\ \E k \in CallsOf(tr, LookupOps) :
               tr[k].ok /\ \A j \in CallsOf(tr, LookupOps) : j <= k
          /\ OutcomeOf(p).taskId \in 1..Len(tasks)

\* C24: a lead of POST /import is looked up, then takes exactly one of the
\* create and the update path, then ends: `created` means one create call,
\* which succeeded, and no call of the update path; `updated` means the
\* lookup found a task and no create call; once the outcome is pushed no
\* call is made for that lead and the outcome stays
C24_OnePathThenTerminal ==
  [][ /\ \A p \in Finished :
           /\ p \in Finished'
           /\ TraceOf(p)' = TraceOf(p)
           /\ OutcomeOf(p)' = OutcomeOf(p)
      /\ \A p \in Finished' : OnePath(p)' ]_vars

\* one request ended a lead `created` and went on to a second lead of the
\* same key, which found the new task and ended `updated`
C24_Witness ==
  \E r \in Imports :
    /\ req[r].pc = "done" /\ Len(req[r].results) = 2
    /\ req[r].results[1].action = "created" /\ Len(req[r].trace[1]) >= 3
    /\ req[r].results[2].action = "updated"


\* the requests whose current lead is past the field and tag writes of the
\* update path
PastWrites == {r \in Imports : req[r].pc = "comment"}
CurTrace(r) == req[r].trace[req[r].i]

\* every custom-field write of the lead was attempted
FieldWritesAllAttempted ==
  \A r \in PastWrites :
    Cardinality(CallsOf(CurTrace(r), {"field"})) = Len(FieldUpdatesOf(req[r]))

\* C25: on the update path a failed custom-field write or tag write does
\* not block the others: when the lead reaches the comment, every
\* custom-field write and every write of a newly derived tag was attempted
C25_FailedWriteDoesNotBlockOthers ==
  \A r \in PastWrites :
    /\ Cardinality(CallsOf(CurTrace(r), {"field"})) = Len(FieldUpdatesOf(req[r]))
    /\ Cardinality(CallsOf(CurTrace(r), {"tag"})) = Len(TagCallsOf(req[r]))


\* the place of a call in the order of the writes of the update path
WriteRank(op) ==
  CASE op = "put" -> 1
    [] op \in {"field", "field/value", "total", "total/value"} -> 2
    [] op = "tag" -> 3
    [] op = "comment" -> 4
    [] OTHER -> 0

WritesInOrder(tr) ==
  /\ Cardinality(CallsOf(tr, {"put"})) <= 1
  /\ \A j, k \in 1..Len(tr) :
       j < k /\ WriteRank(tr[j].op) > 0 /\ WriteRank(tr[k].op) > 0
         => WriteRank(tr[j].op) <= WriteRank(tr[k].op)
  /\ \A k \in 1..Len(tr) :
       WriteRank(tr[k].op) > 1 => \E j \in 1..(k - 1) : tr[j].op = "put" /\ tr[j].ok

\* C26: the writes of the update path are issued in the order PUT, then
\* custom-field writes, then tag additions, then the comment; no field or
\* tag write precedes the PUT, and a reconciliation that ends `updated`
\* has posted exactly one comment
C26_WriteOrder ==
  /\ \A r \in Imports : \A j \in 1..Len(req[r].trace) : WritesInOrder(req[r].trace[j])
  /\ \A p \in Finished :
       OutcomeOf(p).action = "updated" =>
         /\ Cardinality(CallsOf(TraceOf(p), {"comment"})) = 1
         /\ Called(TraceOf(p), "comment", TRUE)

\* a lead ended `updated` after a PUT, field writes, the total, a tag and
\* the comment
C26_Witness ==
  \E p \in Finished :
    /\ OutcomeOf(p).action = "updated"
    /\ \A op \in {"put", "field", "total", "tag", "comment"} : Called(TraceOf(p), op, TRUE)


NormsOf(tags) == {normalize(tags[k]) : k \in 1..Len(tags)}
\* the requests whose current lead is in or past the tag loop
InTagLoop == {r \in Imports : req[r].pc \in {"tag", "comment"}}

\* the tag calls of a lead are calls for derived tags that the task did not
\* carry, one per normalized tag
TagCallsAreNew(r) ==
  LET calls == TagCallsOf(req[r])
      derived == DerivedTagsTbl[CurName(req[r])]
  IN /\ \A k \in 1..Len(calls) :
          /\ normalize(calls[k]) \notin NormsOf(req[r].existing.tags)
          /\ calls[k] \in Range(derived)
     /\ \A j, k \in 1..Len(calls) : j # k => normalize(calls[j]) # normalize(calls[k])
     /\ Cardinality(CallsOf(CurTrace(r), {"tag"})) <= Len(calls)

\* the tags of a task only grow, one new tag per call
TagsOnlyAdded ==
  [][ /\ \A r \in InTagLoop : TagCallsAreNew(r)
      /\ \A k \in 1..Len(tasks) :
           /\ Len(tasks'[k].tags) \in {Len(tasks[k].tags), Len(tasks[k].tags) + 1}
           /\ SubSeq(tasks'[k].tags, 1, Len(tasks[k].tags)) = tasks[k].tags
           /\ Len(tasks'[k].tags) > Len(tasks[k].tags) =>
                tasks'[k].tags[Len(tasks'[k].tags)] \notin Range(tasks[k].tags) ]_vars

\* C27: on the update path tags are only added: exactly one add call for
\* each derived tag whose normalized form the task's tags do not have, at
\* most one per normalized tag, none for a tag the task carries, and no
\* tag is removed
C27_OneAddPerNewTag ==
  [][ /\ \A r \in InTagLoop : TagCallsAreNew(r)
      /\ \A r \in PastWrites' :
           LET derived == DerivedTagsTbl[CurName(req'[r])]
               new == {normalize(derived[k]) : k \in 1..Len(derived)}
                        \ NormsOf(req'[r].existing.tags)
           IN Cardinality(CallsOf(CurTrace(r)', {"tag"})) = Cardinality(new)
      /\ \A k \in 1..Len(tasks) :
           SubSeq(tasks'[k].tags, 1, Len(tasks[k].tags)) = tasks[k].tags ]_vars


\* C28: the lookup by e-mail ends whatever the remote list holds: at most
\* one filtered query, then at most 50 page requests; the scan starts only
\* when the filtered query gave no task, and a page request follows only a
\* page that had tasks and no match
C28_LookupBounded ==
  [][ /\ calc'.filters <= 1 /\ calc'.pages <= MaxPages
      /\ calc'.pages > 0 => calc'.filters = 1 /\ calc'.filterGave = NoTask
      /\ calc'.pages > calc.pages /\ calc.pages > 0 => calc.last = "nomatch"
      /\ calc'.last \in {"empty", "match", "failed"} => calc'.phase = "done"
      /\ calc'.pages = MaxPages => calc'.phase = "done"
      /\ calc.phase = "done" => calc' = calc ]_vars

\* the scan asked for all 50 pages, each with tasks and none matching, and
\* returned null
C28_Witness ==
  /\ calc.fn = "lookup" /\ calc.phase = "done"
  /\ calc.filters = 1 /\ calc.pages = MaxPages
  /\ calc.last = "nomatch" /\ calc.result = "none"


\* the fallback scan ran to its end without a failed request
ScanEnded ==
  calc.fn = "lookup" /\ calc.phase = "done" /\ calc.pages > 0 /\ calc.result # "threw"

\* the scan returns a task only when the first candidate field of the task
\* that holds a string equals the target, and the first such task
ScanReturnsFirstMatch ==
  ScanEnded /\ calc.result = "found" =>
    LET ids == {SchemaTbl[calc.schema].emailFieldId, EMAIL_CUSTOM_FIELD_ID}
    IN /\ HoldsEmail(calc.task, KeyOf(calc.email), ids)
       /\ KeyOf(FirstStringField(calc.task, ids).s) = KeyOf(calc.email)

\* C29: when the fallback scan runs and a task on the scanned pages holds
\* the target e-mail, ignoring case and surrounding whitespace, in any of
\* the candidate fields, the scan returns the first such task in page
\* order; it returns null only when no scanned task holds it
C29_ScanFindsFirstHolder ==
  ScanEnded =>
    /\ ~calc.passedOver
    /\ calc.result = "found" =>
         HoldsEmail(calc.task, KeyOf(calc.email),
                    {SchemaTbl[calc.schema].emailFieldId, EMAIL_CUSTOM_FIELD_ID})


\* the import requests whose current lead has no e-mail
AtLeadWithoutEmail ==
  {r \in Imports : req[r].pc # "done" /\ req[r].pc # "schema" /\ CurLead(req[r]).email = <<>>}

\* C30: a lead without e-mail on POST /import never claims a key nor waits
\* for one and is not looked up: it is at the create call whatever claims
\* the other reconciliations hold, its only call is the create, and its
\* outcome is `created` or `skipped`, never `updated`
C30_NoEmailGoesStraightToCreate ==
  /\ <<>> \notin processingEmails
  /\ \A r \in AtLeadWithoutEmail :
       /\ req[r].pc = "create"
       /\ CallsOf(CurTrace(r), {"create"}) = DOMAIN CurTrace(r)
  /\ \A p \in Finished :
       req[p[1]].leads[p[2]] \in LeadNames /\ LeadOf[req[p[1]].leads[p[2]]].email = <<>> =>
         /\ OutcomeOf(p).action \in {"created", "skipped"}
         /\ CallsOf(TraceOf(p), {"create"}) = DOMAIN TraceOf(p)
         /\ Len(TraceOf(p)) = 1
         /\ OutcomeOf(p).action = "created" <=> Called(TraceOf(p), "create", TRUE)

\* a lead without e-mail was created while another request, holding a
\* claim, was still reconciling its lead
C30_Witness ==
  \E p \in Finished, q \in Imports :
    /\ LeadOf[req[p[1]].leads[p[2]]].email = <<>>
    /\ OutcomeOf(p).action = "created"
    /\ q < p[1] /\ Reconciling(q) /\ processingEmails # {}


\* the rows after the header that are not marked done, in row order
RowsToDo == SelectSeq([k \in 1..Len(drv.rows) |-> k], LAMBDA k : IsTarget(RowOf[drv.rows[k]]))

\* the rows handled so far are the first rows to do, in row order, each once
HandledInOrder ==
  /\ Len(drv.handled) <= Len(RowsToDo)
  /\ drv.handled = SubSeq(RowsToDo, 1, Len(drv.handled))
  /\ \A k \in 1..Len(drv.handled) :
       drv.handled[k] \in drv.posted <=> HasRequired(RowOf[drv.rows[drv.handled[k]]])

\* C31: in one run every row after the header that is not marked done at
\* the start is handled exactly once (one request, or one validation
\* skip), in row order, whatever the number of rows: none is handled
\* twice and at the end of the run none is left
C31_EveryRowHandledOnce ==
  /\ HandledInOrder
  /\ drv.pc = "done" => drv.handled = RowsToDo


\* the handler of row k ends in this step: its request settles, or the row
\* fails the validation when its batch starts
RowEnds(k) ==
  \/ k \in drv.pending /\ k \notin drv'.pending
  \/ /\ \A j \in 1..Len(drv.handled) : drv.handled[j] # k
     /\ \E j \in 1..Len(drv'.handled) : drv'.handled[j] = k
     /\ k \notin drv'.pending

\* the step hands row k the answer 200 of its request, with action
\* created or updated
AnsweredDone(k) ==
  /\ k \in drv.pending /\ k \notin drv'.pending
  /\ req[RowReq(k)].pc = "done" /\ req[RowReq(k)].reply = "200"
  /\ req[RowReq(k)].results[1].action \in {"created", "updated"}
  /\ drv'.processed = drv.processed + 1

\* row k as the next run reads it from the sheet on disk
RowOnDisk(d, k) == [RowOf[d.rows[k]] EXCEPT !.Cadastrado = d.file[k]]

RowMarks(k) ==
  /\ (drv.statuses[k] # StatusSim /\ drv'.statuses[k] = StatusSim) => AnsweredDone(k)
  /\ (RowEnds(k) /\ ~AnsweredDone(k)) => drv'.statuses[k] = StatusErro
  /\ (drv'.statuses[k] = StatusErro /\ k \notin drv'.pending) => IsTarget(RowOnDisk(drv', k))
  /\ drv.statuses[k] = StatusSim => drv'.statuses[k] = StatusSim
  /\ drv.file[k] = StatusSim => drv'.file[k] = StatusSim

\* C32: a row's status becomes done ("sim") only when its request returned
\* action created or updated; a row whose request failed, whose outcome
\* was skipped or that failed the validation is marked "erro" and is a
\* target of the next run; a status of done is never changed
C32_DoneOnlyAfterCreatedOrUpdated ==
  [][\A k \in 1..Len(drv.rows) : RowMarks(k)]_vars

C32_Witness ==
  /\ drv.pc = "done"
  /\ \E j, k \in drv.posted :
       /\ drv.statuses[j] = StatusSim /\ drv.file[j] = StatusSim
       /\ drv.statuses[k] = StatusErro /\ drv.file[k] = StatusErro
       /\ RowOf[drv.rows[k]].Cadastrado # StatusErro

====
